---- MODULE Spec2Model ----
(***************************************************************************)
(* A model of the CarrierOps dataset generator (tools/generate-dataset.js) *)
(* and of its loaders.  The generator is a pipeline                        *)
(*     mulberry32 -> generateCanonical -> toMongoNormalized                 *)
(*                -> toMongoOptimized / toPostgresCsvBundles -> files       *)
(* Numbers: TLC integers are 32-bit signed, so a 32-bit unsigned word is   *)
(* kept as the pair <<high 16 bits, low 16 bits>> and instants are kept in *)
(* seconds since the epoch (every instant the generator builds is a whole  *)
(* number of minutes, so no millisecond is ever lost).                     *)
(***************************************************************************)
EXTENDS Integers, Sequences, FiniteSets, TLC

\* A JavaScript string is a sequence of chunks, each a string of TLA+; a digit,
\* a comma, a double quote and a line break are always chunks of their own.
T(word) == <<word>>

\* null: a value that is no string the program builds
NULL == <<"(null)">>

\* val === null, for a val of any kind (a number, a string, an object)
IsNull(val) == ToString(val) = ToString(NULL)

Min(a, b) == IF a <= b THEN a ELSE b

Range(s) == {s[i] : i \in DOMAIN s}

\* arr.slice(0, n)
Slice(arr, n) == SubSeq(arr, 1, Min(n, Len(arr)))

(***************************************************************************)
(* 32-bit words                                                            *)
(***************************************************************************)
W16 == 65536

\* the exclusive or of two numbers of n bits
RECURSIVE XorBits(_, _, _)
XorBits(a, b, n) ==
  IF n = 0 THEN 0
  ELSE ((a + b) % 2) + 2 * XorBits(a \div 2, b \div 2, n - 1)

Halves(w) == <<w[1], w[2]>>

\* x ^ y
Xor32(x, y) == Halves([h \in 1..2 |-> XorBits(x[h], y[h], 16)])

\* (x + y) modulo 2^32
Add32(x, y) == <<(x[1] + y[1] + (x[2] + y[2]) \div W16) % W16, (x[2] + y[2]) % W16>>

\* x >>> k for 0 < k < 16
Shr32(x, k) == <<x[1] \div 2 ^ k, (x[1] % 2 ^ k) * 2 ^ (16 - k) + x[2] \div 2 ^ k>>

\* x ^ (x >>> k)
XorShift(x, k) == Xor32(x, Shr32(x, k))

\* the 32-bit product of two 16-bit numbers as <<high half, low half>>,
\* built from 16 x 8 bit products so that no intermediate leaves 31 bits
Mul16(x, y) ==
  LET a == x * (y % 256)
      b == x * (y \div 256)
      s == a + (b % 256) * 256
  IN  <<s \div W16 + b \div 256, s % W16>>

\* Math.imul(x, y): the low 32 bits of the product, from the three partial
\* products that reach them
Low32(p) == <<(p[1][1] + p[2][2] + p[3][2]) % W16, p[1][2]>>

Imul(x, y) ==
  Low32([k \in 1..3 |-> Mul16(x[IF k = 2 THEN 1 ELSE 2], y[IF k = 3 THEN 1 ELSE 2])])

\* 1 | x
Or1(x) == <<x[1], IF x[2] % 2 = 1 THEN x[2] ELSE x[2] + 1>>

\* 61 | x : bits 0, 2, 3, 4 and 5 are set, bit 1 is kept
Or61(x) == <<x[1], (x[2] \div 64) * 64 + 61 + 2 * ((x[2] \div 2) % 2)>>

\* seed >>> 0 for an integer seed
ToUint32(seed) ==
  IF seed >= 0 THEN <<(seed \div W16) % W16, seed % W16>>
  ELSE <<(W16 - 1) - ((((0 - seed) - 1) \div W16) % W16),
         (W16 - 1) - (((0 - seed) - 1) % W16)>>

(***************************************************************************)
(* The deterministic random source.  A generator is its cursor t (kept     *)
(* modulo 2^32, which is all the bit operations read; the JavaScript number*)
(* t itself is exact for the first 4.9 million draws) and the number n of  *)
(* draws taken so far.                                                     *)
(***************************************************************************)
mulberry32(seed) == [t |-> ToUint32(seed), n |-> 0]

Increment == <<27947, 31221>>   \* 0x6D2B79F5

\* r ^= r + Math.imul(r ^ (r >>> 7), 61 | r); return r ^ (r >>> 14)
Scramble(r) == XorShift(Xor32(r, Add32(r, Imul(XorShift(r, 7), Or61(r)))), 14)

\* the draw at the cursor t: Math.imul(t ^ (t >>> 15), 1 | t), scrambled
Drawn(g, t) == [g |-> [n |-> g.n + 1, t |-> t], v |-> Scramble(Imul(XorShift(t, 15), Or1(t)))]

\* one call of rand(): the draw as the 32-bit numerator u of u / 2^32, and
\* the generator after it
rand(g) == Drawn(g, Add32(g.t, Increment))

\* the top limb of u * span decides how many bits the double product drops
DroppedBits(top) ==
  IF top >= 256 THEN 4 ELSE IF top >= 128 THEN 3
  ELSE IF top >= 64 THEN 2 ELSE IF top >= 32 THEN 1 ELSE 0

\* the floor below, from the exact quotient, the middle limb m of the product
\* and its low limb
RoundUp(exact, m, low, e) ==
  IF e >= 1 /\ m = W16 - 1 /\ low >= W16 - 2 ^ (e - 1) THEN exact + 1 ELSE exact

Rounded(exact, m, low) == RoundUp(exact, m % W16, low, DroppedBits(exact \div W16))

Product(hh, a, b, c) ==
  Rounded(hh + a[1] + b[1] + (a[2] + b[2] + c[1]) \div W16, a[2] + b[2] + c[1], c[2])

\* Math.floor(rng() * span) for 0 < span < 2^25.  The draw is u / 2^32 and
\* the product u * span / 2^32 is rounded to a 53-bit double before the
\* floor: it is exact below 2^53, and above it rounds up to the next integer
\* exactly when the low 32 bits of u * span are within half a unit of 2^32.
FloorMul(u, span) ==
  Product(u[1] * (span \div W16), Mul16(u[1], span % W16), Mul16(u[2], span \div W16),
          Mul16(u[2], span % W16))

\* rng() < p for a probability p given as the word Floor(p * 2^32), p being
\* a double with p * 2^32 not an integer, or the word p * 2^32 - 1 when it is
Below(u, w) == u[1] < w[1] \/ (u[1] = w[1] /\ u[2] <= w[2])

P10 == <<6553, 39321>>     \* 0.1
P15 == <<9830, 26214>>     \* 0.15
P50 == <<32767, 65535>>    \* 0.5
P55 == <<36044, 52428>>    \* 0.55
P70 == <<45875, 13107>>    \* 0.7
P75 == <<49151, 65535>>    \* 0.75

\* choice(rng, arr) and intBetween(rng, min, maxInclusive) call rng() once:
\* d is what that call returned
choice(d, arr) == [g |-> d.g, v |-> arr[FloorMul(d.v, Len(arr)) + 1]]

intBetween(d, min, maxInclusive) ==
  [g |-> d.g, v |-> min + FloorMul(d.v, maxInclusive - min + 1)]

(***************************************************************************)
(* The calls a piece of code makes on the random source, in the order it   *)
(* makes them; R is the cursor and the values the calls returned so far.   *)
(***************************************************************************)
CallRng == [fn |-> "rng"]

CallChoice(arr) == [fn |-> "choice", arr |-> arr]

CallIntBetween(min, maxInclusive) ==
  [fn |-> "intBetween", min |-> min, maxInclusive |-> maxInclusive]

CallShuffle(arr) == [fn |-> "shuffle", arr |-> arr]

Answer(d, call) ==
  CASE call.fn = "rng" -> d
    [] call.fn = "choice" -> choice(d, call.arr)
    [] call.fn = "intBetween" -> intBetween(d, call.min, call.maxInclusive)

Returned(R, d) == [g |-> d.g, v |-> Append(R.v, d.v)]

RECURSIVE CallsTo(_, _, _, _)

Calls(g, calls) == CallsTo([g |-> g, v |-> <<>>], calls, 0, Len(calls))

\* the calls after those of R
More(R, calls) == CallsTo(R, calls, Len(R.v), Len(R.v) + Len(calls))

Swap(a, i, j) == [a EXCEPT ![i] = a[j], ![j] = a[i]]

\* one iteration of the Fisher-Yates loop, i counting down:
\* j = Math.floor(rng() * (i + 1)), which is intBetween(rng, 0, i)
Swapped(L, R) == [g |-> R.g, a |-> Swap(L.a, L.i + 1, R.v[1] + 1), i |-> L.i - 1]

ShuffleStep(L) == Swapped(L, Calls(L.g, <<CallIntBetween(0, L.i)>>))

\* A counted loop runs its body on the loop's variables L until the counter
\* L.i reaches n; the iterations are split in halves so that evaluation nests
\* to depth log n.
RECURSIVE ShuffleLoop(_, _)
ShuffleLoop(L, n) ==
  IF L.i <= n THEN L
  ELSE IF L.i = n + 1 THEN ShuffleStep(L)
  ELSE ShuffleLoop(ShuffleLoop(L, (L.i + n) \div 2), n)

Shuffled(L) == [g |-> L.g, v |-> L.a]

\* shuffle with the loop left at i > 1
shuffleAboveOne(g, arr) ==
  Shuffled(ShuffleLoop([g |-> g, a |-> arr, i |-> Len(arr) - 1], 1))

shuffle(g, arr) == Shuffled(ShuffleLoop([g |-> g, a |-> arr, i |-> Len(arr) - 1], 0))

Call(g, call) ==
  IF call.fn = "shuffle" THEN shuffle(g, call.arr) ELSE Answer(rand(g), call)

\* the calls numbered up to n, calls[k - from] being the call numbered k
CallsTo(R, calls, from, n) ==
  IF Len(R.v) >= n THEN R
  ELSE IF Len(R.v) + 1 = n THEN Returned(R, Call(R.g, calls[n - from]))
  ELSE CallsTo(CallsTo(R, calls, from, (Len(R.v) + n) \div 2), calls, from, n)

(***************************************************************************)
(* Text and time                                                           *)
(***************************************************************************)
DigitChars == <<"0", "1", "2", "3", "4", "5", "6", "7", "8", "9">>

\* String(n) for an integer n
RECURSIVE NatDigits(_)
NatDigits(n) ==
  Append(IF n < 10 THEN <<>> ELSE NatDigits(n \div 10), DigitChars[(n % 10) + 1])

String(n) == (IF n < 0 THEN <<"-">> ELSE <<>>) \o NatDigits(IF n < 0 THEN 0 - n ELSE n)

\* s.padStart(width, '0')
RECURSIVE padStart(_, _)
padStart(s, width) == IF Len(s) >= width THEN s ELSE padStart(<<"0">> \o s, width)

padNum(n, width) == padStart(String(n), width)

DigitValue(c) == CHOOSE k \in 0..9 : DigitChars[k + 1] = c

\* the number written by the digits s[from..to]
RECURSIVE ParseDigits(_, _, _)
ParseDigits(s, from, to) ==
  IF to < from THEN 0
  ELSE 10 * ParseDigits(s, from, to - 1) + DigitValue(s[to])

DaySeconds == 86400

\* the civil date <<year, month, day>> of a day number counted from 1970-01-01:
\* the day doe of the 400-year era, the year yoe of the era, the day doy of
\* the year counted from March 1st and the month mp counted from March
CivilMonth(y, doy, mp) ==
  <<y + (IF mp >= 10 THEN 1 ELSE 0), IF mp < 10 THEN mp + 3 ELSE mp - 9,
    doy - (153 * mp + 2) \div 5 + 1>>

CivilDay(y, doy) == CivilMonth(y, doy, (5 * doy + 2) \div 153)

CivilYear(era, yoe, doe) ==
  CivilDay(era * 400 + yoe, doe - (365 * yoe + yoe \div 4 - yoe \div 100))

CivilInEra(era, doe) ==
  CivilYear(era, (doe - doe \div 1460 + doe \div 36524 - doe \div 146096) \div 365, doe)

CivilFromDays(days) == CivilInEra((days + 719468) \div 146097, (days + 719468) % 146097)

DaysFromCivil(year, m, d) ==
  LET y   == IF m <= 2 THEN year - 1 ELSE year
      era == y \div 400
      yoe == y - era * 400
      doy == (153 * (IF m > 2 THEN m - 3 ELSE m + 9) + 2) \div 5 + d - 1
      doe == yoe * 365 + yoe \div 4 - yoe \div 100 + doy
  IN  era * 146097 + doe - 719468

\* the text of the civil date c and of the second sec of the day
IsoText(c, sec) ==
  padNum(c[1], 4) \o <<"-">> \o padNum(c[2], 2) \o <<"-">> \o padNum(c[3], 2)
  \o <<"T">> \o padNum(sec \div 3600, 2) \o <<":">> \o padNum((sec \div 60) % 60, 2)
  \o <<":">> \o padNum(sec % 60, 2) \o <<"Z">>

\* iso(dt): new Date(dt).toISOString() with ".000Z" replaced by "Z"; dt is in
\* seconds, so the milliseconds are always 000 and the replacement always applies
iso(dt) == IsoText(CivilFromDays(dt \div DaySeconds), dt % DaySeconds)

\* new Date(text).getTime() for a text written by iso, in seconds
DateParse(s) ==
  DaysFromCivil(ParseDigits(s, 1, 4), ParseDigits(s, 6, 7), ParseDigits(s, 9, 10)) * DaySeconds
  + ParseDigits(s, 12, 13) * 3600 + ParseDigits(s, 15, 16) * 60 + ParseDigits(s, 18, 19)

\* new Date('2026-01-18T00:00:00Z').getTime(), in seconds
base == 1768694400

\* text.toLowerCase() for the names the generator lower-cases
LowerCaseOf ==
  [Alex |-> "alex", Jordan |-> "jordan", Casey |-> "casey", Taylor |-> "taylor",
   Morgan |-> "morgan", Riley |-> "riley", Sam |-> "sam", Drew |-> "drew",
   Bennett |-> "bennett", Kim |-> "kim", Nguyen |-> "nguyen", Reed |-> "reed",
   Patel |-> "patel", Santos |-> "santos", Carter |-> "carter", Lopez |-> "lopez"]

toLowerCase(s) == [k \in DOMAIN s |-> LowerCaseOf[s[k]]]

(***************************************************************************)
(* Presets, vocabulary and identifier ranges                               *)
(***************************************************************************)
presets(size) ==
  IF size = T("S") THEN
    [accounts |-> 3,
     subsPerAccountMin |-> 2, subsPerAccountMax |-> 2,
     ordersPerAccountMin |-> 1, ordersPerAccountMax |-> 2,
     itemsPerOrderMin |-> 2, itemsPerOrderMax |-> 3,
     ticketsPerSubscriberMin |-> 0, ticketsPerSubscriberMax |-> 1,
     deviceEventsPerDeviceMin |-> 3, deviceEventsPerDeviceMax |-> 6,
     usageRecordsPerSubscriber |-> 10,
     days |-> 2,
     embedFeatureCodes |-> TRUE]
  ELSE IF size = T("M") THEN
    [accounts |-> 25,
     subsPerAccountMin |-> 2, subsPerAccountMax |-> 5,
     ordersPerAccountMin |-> 1, ordersPerAccountMax |-> 4,
     itemsPerOrderMin |-> 2, itemsPerOrderMax |-> 5,
     ticketsPerSubscriberMin |-> 0, ticketsPerSubscriberMax |-> 2,
     deviceEventsPerDeviceMin |-> 20, deviceEventsPerDeviceMax |-> 60,
     usageRecordsPerSubscriber |-> 250,
     days |-> 7,
     embedFeatureCodes |-> TRUE]
  ELSE
    [accounts |-> 200,
     subsPerAccountMin |-> 2, subsPerAccountMax |-> 6,
     ordersPerAccountMin |-> 1, ordersPerAccountMax |-> 5,
     itemsPerOrderMin |-> 2, itemsPerOrderMax |-> 6,
     ticketsPerSubscriberMin |-> 0, ticketsPerSubscriberMax |-> 2,
     deviceEventsPerDeviceMin |-> 200, deviceEventsPerDeviceMax |-> 600,
     usageRecordsPerSubscriber |-> 2500,
     days |-> 30,
     embedFeatureCodes |-> TRUE]

REGION_CODES == <<T("TX-NORTH"), T("TX-SOUTH")>>

ACCOUNT_NAMES ==
  <<T("Oak Hill Coffee Co"), T("Red River Hardware"), T("Pecan Street Apartments"),
    T("Bluebonnet Clinic"), T("Cedar Ridge Auto"), T("Trinity Bookshop")>>

DEVICE_MODELS ==
  <<T("Pixel 8"), T("Pixel 7a"), T("iPhone 15"), T("iPhone 14"), T("Galaxy S24"),
    T("Galaxy A54")>>

ORDER_SKUS ==
  <<[sku |-> T("SIM-ESIM"), priceCents |-> 0],
    [sku |-> T("SIM-PHYSICAL"), priceCents |-> 500],
    [sku |-> T("PLAN-UNL-5G"), priceCents |-> 6500],
    [sku |-> T("PLAN-5G-STARTER"), priceCents |-> 4500],
    [sku |-> T("ADDON-HOTSPOT"), priceCents |-> 1000],
    [sku |-> T("ADDON-INTL_ROAM"), priceCents |-> 1500],
    [sku |-> T("ADDON-DEVICE_PROTECT"), priceCents |-> 1700],
    [sku |-> T("DEVICE-PHONE"), priceCents |-> 79900]>>

FEATURE_DEFS ==
  <<[featureId |-> 5001, code |-> T("HOTSPOT"), name |-> T("Mobile Hotspot")],
    [featureId |-> 5002, code |-> T("INTL_ROAM"), name |-> T("International Roaming Pack")],
    [featureId |-> 5003, code |-> T("DEVICE_PROTECT"), name |-> T("Device Protection")],
    [featureId |-> 5004, code |-> T("VISUAL_VM"), name |-> T("Visual Voicemail")]>>

TICKET_STATUS ==
  <<[code |-> T("OPEN"), description |-> T("Open / Investigating")],
    [code |-> T("WIP"), description |-> T("Work in Progress")],
    [code |-> T("RESOLVED"), description |-> T("Resolved")]>>

TICKET_SUMMARIES ==
  <<T("Intermittent data connectivity in downtown area"),
    T("Unable to activate device after SIM swap"),
    T("Voicemail not syncing"),
    T("Roaming add-on stuck in provisioning"),
    T("High latency during evening hours"),
    T("Dropped calls reported near highway corridor")>>

NOTE_AUTHORS ==
  <<T("opsAgent7"), T("netOps2"), T("care1"), T("care2"), T("fulfill3"), T("netOps4")>>

NOTE_PHRASES ==
  <<T("Investigating."), T("Collecting logs."), T("Escalated to ops."),
    T("Customer contacted."), T("Retrying provisioning."), T("Monitoring impact.")>>

firstNames ==
  <<T("Alex"), T("Jordan"), T("Casey"), T("Taylor"), T("Morgan"), T("Riley"), T("Sam"),
    T("Drew")>>

lastNames ==
  <<T("Bennett"), T("Kim"), T("Nguyen"), T("Reed"), T("Patel"), T("Santos"), T("Carter"),
    T("Lopez")>>

orderStatuses == <<T("submitted"), T("fulfilled"), T("canceled")>>

sources == <<T("self-serve"), T("call-center"), T("system")>>

states == <<T("pending"), T("active"), T("failed")>>

eventTypes ==
  <<T("radio_attach"), T("handover"), T("data_session_start"), T("data_session_end"),
    T("latency_probe"), T("attach_fail")>>

attachFailCauses == <<T("network_congestion"), T("auth_reject"), T("radio_no_service")>>

usageTypes == <<T("voice"), T("sms"), T("data")>>

idRanges ==
  [accountId |-> 1001,
   subscriberId |-> 2001,
   deviceId |-> 3001,
   orderId |-> 4001,
   orderItemId |-> 4101,
   subscriberFeatureStateId |-> 6001,
   ticketId |-> 7001,
   noteId |-> 8001,
   orgUnitId |-> 9001,
   planId |-> 10001,
   regionId |-> 11001,
   deviceClassId |-> 12001,
   deviceEventId |-> 13001,
   usageRecordId |-> 14001]

(***************************************************************************)
(* generateCanonical.  A generation in progress is a record G: the random  *)
(* cursor rng, the identifier counters ids, the preset cfg, the data built *)
(* so far d (under the names of the returned object), and the position: pc *)
(* names the loop being run and i counts its finished iterations.  One     *)
(* step runs one iteration of a top-level loop of the function.            *)
(***************************************************************************)
plans0(ids) ==
  <<[planId |-> ids.planId, code |-> T("PLAN-UNL-5G"), name |-> T("Unlimited 5G")],
    [planId |-> ids.planId + 1, code |-> T("PLAN-5G-STARTER"), name |-> T("5G Starter")]>>

regions0(ids) ==
  [k \in 1..Len(REGION_CODES) |-> [regionId |-> ids.regionId + k - 1, code |-> REGION_CODES[k]]]

deviceClasses0(ids) ==
  <<[deviceClassId |-> ids.deviceClassId, code |-> T("PHONE")],
    [deviceClassId |-> ids.deviceClassId + 1, code |-> T("TABLET")]>>

\* a nullable number is a number or NULL
orgUnits0 ==
  <<[orgUnitId |-> 9001, name |-> T("Network Ops"), parentOrgUnitId |-> NULL],
    [orgUnitId |-> 9002, name |-> T("Core Network"), parentOrgUnitId |-> 9001],
    [orgUnitId |-> 9003, name |-> T("Radio Access Network"), parentOrgUnitId |-> 9001],
    [orgUnitId |-> 9004, name |-> T("Customer Care"), parentOrgUnitId |-> NULL],
    [orgUnitId |-> 9005, name |-> T("Field Ops"), parentOrgUnitId |-> 9004]>>

\* rateCents without the delta of the device class
rateCentsOfPhone(p, r, dc) ==
  LET planBase    == IF p.code = T("PLAN-UNL-5G") THEN 6500 ELSE 4500
      regionDelta == IF r.code = T("TX-NORTH") THEN 0 ELSE 0 - 200
  IN  planBase + regionDelta

rateCents(p, r, dc) ==
  LET planBase    == IF p.code = T("PLAN-UNL-5G") THEN 6500 ELSE 4500
      regionDelta == IF r.code = T("TX-NORTH") THEN 0 ELSE 0 - 200
      classDelta  == IF dc.code = T("PHONE") THEN 0 ELSE 0 - 1000
  IN  planBase + regionDelta + classDelta

\* the three nested loops over plans, regions and device classes
rates0(plans, regions, deviceClasses) ==
  LET nr == Len(regions)
      nd == Len(deviceClasses)
  IN  [k \in 1..(Len(plans) * nr * nd) |->
         LET p  == plans[((k - 1) \div (nr * nd)) + 1]
             r  == regions[(((k - 1) \div nd) % nr) + 1]
             dc == deviceClasses[((k - 1) % nd) + 1]
         IN  [planId |-> p.planId, regionId |-> r.regionId,
              deviceClassId |-> dc.deviceClassId, rateCents |-> rateCents(p, r, dc)]]

GenStart(rng, cfg) ==
  [rng |-> rng,
   cfg |-> cfg,
   ids |-> [idRanges EXCEPT !.planId = @ + 2, !.regionId = @ + Len(REGION_CODES),
                            !.deviceClassId = @ + 2],
   pc |-> "accounts",
   i |-> 0,
   j |-> 0,
   count |-> 0,
   noteRefs |-> <<>>,
   d |-> [accounts |-> <<>>, subscribers |-> <<>>, subscriber_profiles |-> <<>>,
          devices |-> <<>>, device_events |-> <<>>, orders |-> <<>>,
          order_items |-> <<>>, features |-> <<>>, subscriber_features |-> <<>>,
          subscriber_feature_state |-> <<>>, ticket_status_codes |-> <<>>,
          tickets |-> <<>>, notes |-> <<>>, org_units |-> orgUnits0,
          plans |-> plans0(idRanges), regions |-> regions0(idRanges),
          device_classes |-> deviceClasses0(idRanges),
          rates |-> rates0(plans0(idRanges), regions0(idRanges), deviceClasses0(idRanges)),
          usage_records |-> <<>>]]

\* the start of an inner loop of count passes, the count being the value the
\* calls R returned, and the end of the pass of the outer loop around it
Counted(G, R) == [G EXCEPT !.rng = R.g, !.j = 0, !.count = R.v[1]]

Done(G) == [G EXCEPT !.i = @ + 1, !.j = 0, !.count = 0]

\* ---- accounts: pass i of the loop
AccountCreatedAt(cfg, i) == base - (cfg.days + 5) * DaySeconds + i * 2 * 60 * 60

Account(G, R) ==
  [G EXCEPT !.rng = R.g,
            !.ids.accountId = @ + 1,
            !.d.accounts = Append(@, [accountId |-> G.ids.accountId,
                                      accountNumber |-> <<"A-">> \o String(G.ids.accountId),
                                      name |-> ACCOUNT_NAMES[(G.i % Len(ACCOUNT_NAMES)) + 1],
                                      billingRegionCode |-> R.v[1],
                                      status |-> T("active"),
                                      createdAt |-> iso(AccountCreatedAt(G.cfg, G.i))])]

AccountStep(G) == Done(Account(G, Calls(G.rng, <<CallChoice(REGION_CODES)>>)))

\* ---- subscribers and profiles: pass j of the inner loop for the account acct
SubscriberCreatedAt(cfg, subscriberId) ==
  base - (cfg.days + 3) * DaySeconds + (subscriberId % 20) * 15 * 60

Subscriber(G, acct, R) ==
  [G EXCEPT
     !.rng = R.g,
     !.ids.subscriberId = @ + 1,
     !.d.subscribers =
        Append(@, [subscriberId |-> G.ids.subscriberId,
                   accountId |-> acct.accountId,
                   msisdn |-> <<"+1214555">> \o padNum(G.ids.subscriberId % 10000, 4),
                   status |-> IF Below(R.v[1], P10) THEN T("suspended") ELSE T("active"),
                   createdAt |-> iso(SubscriberCreatedAt(G.cfg, G.ids.subscriberId))]),
     !.d.subscriber_profiles =
        Append(@, [subscriberId |-> G.ids.subscriberId,
                   firstName |-> R.v[2],
                   lastName |-> R.v[3],
                   email |-> toLowerCase(R.v[2]) \o <<".">> \o toLowerCase(R.v[3])
                             \o <<"@example.com">>,
                   dob |-> String(R.v[4]) \o <<"-">> \o padNum(R.v[5], 2) \o <<"-">>
                           \o padNum(R.v[6], 2),
                   piiLast4Ssn |-> padNum(R.v[8], 4),
                   preferences |-> [marketingOptIn |-> Below(R.v[9], P50),
                                    paperlessBilling |-> Below(R.v[10], P70)],
                   updatedAt |-> iso(base - G.cfg.days * DaySeconds + R.v[7] * 60 * 60)]),
     !.j = @ + 1]

AddSubscriber(G) ==
  Subscriber(G, G.d.accounts[G.i + 1],
             Calls(G.rng, <<CallRng, CallChoice(firstNames), CallChoice(lastNames),
                            CallIntBetween(1980, 1998), CallIntBetween(1, 12),
                            CallIntBetween(1, 28), CallIntBetween(1, 12),
                            CallIntBetween(0, 9999), CallRng, CallRng>>))

RECURSIVE SubscriberLoop(_, _)
SubscriberLoop(G, n) ==
  IF G.j >= n THEN G
  ELSE IF G.j + 1 = n THEN AddSubscriber(G)
  ELSE SubscriberLoop(SubscriberLoop(G, (G.j + n) \div 2), n)

SubscribersOf(G) == SubscriberLoop(G, G.count)

SubscribersStep(G) ==
  Done(SubscribersOf(Counted(G, Calls(G.rng, <<CallIntBetween(G.cfg.subsPerAccountMin,
                                                               G.cfg.subsPerAccountMax)>>))))

\* ---- devices: one per subscriber
Device(G, s, R) ==
  [G EXCEPT !.rng = R.g,
            !.ids.deviceId = @ + 1,
            !.d.devices = Append(@, [deviceId |-> G.ids.deviceId,
                                     subscriberId |-> s.subscriberId,
                                     imei |-> <<"356789012">> \o padNum(G.ids.deviceId, 6),
                                     model |-> R.v[1],
                                     createdAt |-> iso(DateParse(s.createdAt) + 30 * 60)])]

\* DeviceStep with every device given to the first subscriber
DeviceStepOfFirst(G) ==
  Done(Device(G, G.d.subscribers[1], Calls(G.rng, <<CallChoice(DEVICE_MODELS)>>)))

DeviceStep(G) ==
  Done(Device(G, G.d.subscribers[G.i + 1], Calls(G.rng, <<CallChoice(DEVICE_MODELS)>>)))

\* ---- orders and items
\* ItemRows with the order's id read after its increment
ItemRowsOfNext(skus, orderId, firstItemId) ==
  [k \in 1..Len(skus) |->
     [orderItemId |-> firstItemId + k - 1,
      orderId |-> orderId + 1,
      sku |-> skus[k].sku,
      qty |-> 1,
      priceCents |-> skus[k].priceCents]]

ItemRows(skus, orderId, firstItemId) ==
  [k \in 1..Len(skus) |->
     [orderItemId |-> firstItemId + k - 1,
      orderId |-> orderId,
      sku |-> skus[k].sku,
      qty |-> 1,
      priceCents |-> skus[k].priceCents]]

Order(G, acct, R) ==
  [G EXCEPT
     !.rng = R.g,
     !.ids.orderId = @ + 1,
     !.ids.orderItemId = @ + Len(Slice(R.v[4], R.v[3])),
     !.d.orders = Append(@, [orderId |-> G.ids.orderId,
                             accountId |-> acct.accountId,
                             status |-> R.v[1],
                             createdAt |-> iso(base - G.cfg.days * DaySeconds
                                               + R.v[2] * 60 * 60)]),
     !.d.order_items = @ \o ItemRows(Slice(R.v[4], R.v[3]), G.ids.orderId, G.ids.orderItemId),
     !.j = @ + 1]

AddOrder(G) ==
  Order(G, G.d.accounts[G.i + 1],
        Calls(G.rng, <<CallChoice(orderStatuses), CallIntBetween(1, 36),
                       CallIntBetween(G.cfg.itemsPerOrderMin, G.cfg.itemsPerOrderMax),
                       CallShuffle(ORDER_SKUS)>>))

RECURSIVE OrderLoop(_, _)
OrderLoop(G, n) ==
  IF G.j >= n THEN G
  ELSE IF G.j + 1 = n THEN AddOrder(G)
  ELSE OrderLoop(OrderLoop(G, (G.j + n) \div 2), n)

OrdersOf(G) == OrderLoop(G, G.count)

OrdersStep(G) ==
  Done(OrdersOf(Counted(G, Calls(G.rng, <<CallIntBetween(G.cfg.ordersPerAccountMin,
                                                         G.cfg.ordersPerAccountMax)>>))))

\* ---- subscriber_features: one or two features per subscriber
\* FeatureRows with the first chosen feature in every row
FeatureRowsOfFirst(s, chosen) ==
  [k \in 1..Len(chosen) |-> [subscriberId |-> s.subscriberId, featureId |-> chosen[1].featureId]]

FeatureRows(s, chosen) ==
  [k \in 1..Len(chosen) |-> [subscriberId |-> s.subscriberId, featureId |-> chosen[k].featureId]]

Features(G, s, R) ==
  [G EXCEPT !.rng = R.g,
            !.d.subscriber_features = @ \o FeatureRows(s, Slice(R.v[2], R.v[1]))]

FeaturesStep(G) ==
  Done(Features(G, G.d.subscribers[G.i + 1],
                Calls(G.rng, <<CallIntBetween(1, 2), CallShuffle(G.d.features)>>)))

\* ---- subscriber_feature_state: a state row for some of the bridge rows
EffectiveFrom(cfg, hours) == base - (cfg.days + 1) * DaySeconds + hours * 60 * 60

\* R holds rng() < 0.55, the hours, rng() < 0.75, the state if one was chosen,
\* the source and rng() < 0.15
FeatureState(G, sf, R) ==
  [G EXCEPT
     !.rng = R.g,
     !.ids.subscriberFeatureStateId = @ + 1,
     !.d.subscriber_feature_state =
        Append(@, [subscriberFeatureStateId |-> G.ids.subscriberFeatureStateId,
                   subscriberId |-> sf.subscriberId,
                   featureId |-> sf.featureId,
                   effectiveFrom |-> iso(EffectiveFrom(G.cfg, R.v[2])),
                   effectiveTo |-> IF Below(R.v[Len(R.v)], P15)
                                   THEN iso(EffectiveFrom(G.cfg, R.v[2]) + 3 * DaySeconds)
                                   ELSE NULL,
                   provisioningState |-> IF Below(R.v[3], P75) THEN T("active") ELSE R.v[4],
                   source |-> R.v[Len(R.v) - 1]])]

ProvisioningCalls(R) ==
  IF Below(R.v[3], P75) THEN <<CallChoice(sources), CallRng>>
  ELSE <<CallChoice(states), CallChoice(sources), CallRng>>

Provisioned(R) == More(R, ProvisioningCalls(R))

MaybeFeatureState(G, sf, R) ==
  IF Below(R.v[1], P55) THEN [G EXCEPT !.rng = R.g]
  ELSE FeatureState(G, sf, Provisioned(More(R, <<CallIntBetween(1, 48), CallRng>>)))

FeatureStateStep(G) ==
  Done(MaybeFeatureState(G, G.d.subscriber_features[G.i + 1], Calls(G.rng, <<CallRng>>)))

\* ---- tickets: pass j of the inner loop for the subscriber s
OpenedAt(cfg, hours) == base - cfg.days * DaySeconds + hours * 60 * 60

\* Ticket with a resolved ticket closed at the instant it was opened
TicketClosedAtOnce(G, s, R) ==
  [G EXCEPT
     !.rng = R.g,
     !.ids.ticketId = @ + 1,
     !.d.tickets = Append(@, [ticketId |-> G.ids.ticketId,
                              subscriberId |-> s.subscriberId,
                              statusCode |-> R.v[1].code,
                              openedAt |-> iso(OpenedAt(G.cfg, R.v[2])),
                              closedAt |-> IF R.v[1].code = T("RESOLVED")
                                           THEN iso(OpenedAt(G.cfg, R.v[2]))
                                           ELSE NULL,
                              summary |-> R.v[Len(R.v)]]),
     !.j = @ + 1]

\* R holds the status row, the hours, the minutes if the ticket is resolved,
\* and the summary
Ticket(G, s, R) ==
  [G EXCEPT
     !.rng = R.g,
     !.ids.ticketId = @ + 1,
     !.d.tickets = Append(@, [ticketId |-> G.ids.ticketId,
                              subscriberId |-> s.subscriberId,
                              statusCode |-> R.v[1].code,
                              openedAt |-> iso(OpenedAt(G.cfg, R.v[2])),
                              closedAt |-> IF R.v[1].code = T("RESOLVED")
                                           THEN iso(OpenedAt(G.cfg, R.v[2]) + R.v[3] * 60)
                                           ELSE NULL,
                              summary |-> R.v[Len(R.v)]]),
     !.j = @ + 1]

ClosingCalls(R) ==
  IF R.v[1].code = T("RESOLVED")
  THEN <<CallIntBetween(15, 180), CallChoice(TICKET_SUMMARIES)>>
  ELSE <<CallChoice(TICKET_SUMMARIES)>>

Closed(R) == More(R, ClosingCalls(R))

AddTicket(G) ==
  Ticket(G, G.d.subscribers[G.i + 1],
         Closed(Calls(G.rng, <<CallChoice(G.d.ticket_status_codes), CallIntBetween(1, 48)>>)))

RECURSIVE TicketLoop(_, _)
TicketLoop(G, n) ==
  IF G.j >= n THEN G
  ELSE IF G.j + 1 = n THEN AddTicket(G)
  ELSE TicketLoop(TicketLoop(G, (G.j + n) \div 2), n)

TicketsOf(G) == TicketLoop(G, G.count)

TicketsStep(G) ==
  Done(TicketsOf(Counted(G, Calls(G.rng, <<CallIntBetween(G.cfg.ticketsPerSubscriberMin,
                                                          G.cfg.ticketsPerSubscriberMax)>>))))

\* ---- notes: a few subscribers, orders and tickets, one note each
\* noteRefs with every note on a ticket referring to the first of them
noteRefsOfFirst(someSubscribers, someOrders, someTickets) ==
     [k \in 1..Len(someSubscribers) |->
        [refType |-> T("subscriber"), refId |-> someSubscribers[k].subscriberId]]
  \o [k \in 1..Len(someOrders) |-> [refType |-> T("order"), refId |-> someOrders[k].orderId]]
  \o [k \in 1..Len(someTickets) |-> [refType |-> T("ticket"), refId |-> someTickets[1].ticketId]]

noteRefs(someSubscribers, someOrders, someTickets) ==
     [k \in 1..Len(someSubscribers) |->
        [refType |-> T("subscriber"), refId |-> someSubscribers[k].subscriberId]]
  \o [k \in 1..Len(someOrders) |-> [refType |-> T("order"), refId |-> someOrders[k].orderId]]
  \o [k \in 1..Len(someTickets) |-> [refType |-> T("ticket"), refId |-> someTickets[k].ticketId]]

Note(G, r, R) ==
  [G EXCEPT
     !.rng = R.g,
     !.ids.noteId = @ + 1,
     !.d.notes = Append(@, [noteId |-> G.ids.noteId,
                            refType |-> r.refType,
                            refId |-> r.refId,
                            author |-> R.v[2],
                            body |-> <<"Note on ">> \o r.refType \o <<" ">> \o String(r.refId)
                                     \o <<": ">> \o R.v[3],
                            createdAt |-> iso(base - G.cfg.days * DaySeconds
                                              + R.v[1] * 60 * 60)]),
     !.j = @ + 1]

AddNote(G) ==
  Note(G, G.noteRefs[G.j + 1],
       Calls(G.rng, <<CallIntBetween(1, 48), CallChoice(NOTE_AUTHORS),
                      CallChoice(NOTE_PHRASES)>>))

RECURSIVE NoteLoop(_, _)
NoteLoop(G, n) ==
  IF G.j >= n THEN G
  ELSE IF G.j + 1 = n THEN AddNote(G)
  ELSE NoteLoop(NoteLoop(G, (G.j + n) \div 2), n)

NotesOf(G) == NoteLoop(G, Len(G.noteRefs))

Referred(G, R) ==
  [G EXCEPT !.rng = R.g,
            !.j = 0,
            !.noteRefs = noteRefs(Slice(R.v[1], Min(4, Len(G.d.subscribers))),
                                  Slice(R.v[2], Min(3, Len(G.d.orders))),
                                  Slice(R.v[3], Min(4, Len(G.d.tickets))))]

NotesStep(G) ==
  Done(NotesOf(Referred(G, Calls(G.rng, <<CallShuffle(G.d.subscribers), CallShuffle(G.d.orders),
                                          CallShuffle(G.d.tickets)>>))))

\* ---- device events: pass j of the inner loop for the device dev
CellId(n) == <<"DFW-">> \o String(n)

PayloadCalls(eventType) ==
  CASE eventType = T("radio_attach") -> <<CallIntBetween(100, 399), CallIntBetween(70, 100)>>
    [] eventType = T("handover") -> <<CallIntBetween(100, 399), CallIntBetween(100, 399)>>
    [] eventType = T("data_session_start") ->
         <<CallIntBetween(0, 255), CallIntBetween(0, 255), CallIntBetween(1, 254)>>
    [] eventType = T("data_session_end") ->
         <<CallIntBetween(1000000, 8000000), CallIntBetween(3000000, 30000000)>>
    [] eventType = T("latency_probe") -> <<CallIntBetween(20, 80), CallIntBetween(100, 350)>>
    [] eventType = T("attach_fail") -> <<CallChoice(attachFailCauses)>>
    [] OTHER -> <<>>

\* payload with the cell a handover leaves under the key of radio_attach
payloadOfAttach(eventType, v) ==
  CASE eventType = T("radio_attach") -> [cellId |-> CellId(v[1]), rssi |-> 0 - v[2]]
    [] eventType = T("handover") -> [cellId |-> CellId(v[1]), toCellId |-> CellId(v[2])]
    [] eventType = T("data_session_start") ->
         [apn |-> T("carrierops"),
          ip |-> <<"10.">> \o String(v[1]) \o <<".">> \o String(v[2]) \o <<".">> \o String(v[3])]
    [] eventType = T("data_session_end") -> [bytesUp |-> v[1], bytesDown |-> v[2]]
    [] eventType = T("latency_probe") -> [p50Ms |-> v[1], p95Ms |-> v[2]]
    [] eventType = T("attach_fail") -> [cause |-> v[1]]
    [] OTHER -> <<>>

\* the payload of an event, v being what the calls of PayloadCalls returned
payload(eventType, v) ==
  CASE eventType = T("radio_attach") -> [cellId |-> CellId(v[1]), rssi |-> 0 - v[2]]
    [] eventType = T("handover") -> [fromCellId |-> CellId(v[1]), toCellId |-> CellId(v[2])]
    [] eventType = T("data_session_start") ->
         [apn |-> T("carrierops"),
          ip |-> <<"10.">> \o String(v[1]) \o <<".">> \o String(v[2]) \o <<".">> \o String(v[3])]
    [] eventType = T("data_session_end") -> [bytesUp |-> v[1], bytesDown |-> v[2]]
    [] eventType = T("latency_probe") -> [p50Ms |-> v[1], p95Ms |-> v[2]]
    [] eventType = T("attach_fail") -> [cause |-> v[1]]
    [] OTHER -> <<>>

EventAt(cfg, minutes) == base - cfg.days * DaySeconds + minutes * 60

DeviceEvent(G, dev, R) ==
  [G EXCEPT
     !.rng = R.g,
     !.ids.deviceEventId = @ + 1,
     !.d.device_events = Append(@, [deviceEventId |-> G.ids.deviceEventId,
                                    deviceId |-> dev.deviceId,
                                    eventType |-> R.v[2],
                                    ts |-> iso(EventAt(G.cfg, R.v[1])),
                                    payload |-> payload(R.v[2], SubSeq(R.v, 3, Len(R.v)))]),
     !.j = @ + 1]

Detailed(R) == More(R, PayloadCalls(R.v[2]))

AddDeviceEvent(G) ==
  DeviceEvent(G, G.d.devices[G.i + 1],
              Detailed(Calls(G.rng, <<CallIntBetween(1, G.cfg.days * 24 * 60),
                                      CallChoice(eventTypes)>>)))

RECURSIVE DeviceEventLoop(_, _)
DeviceEventLoop(G, n) ==
  IF G.j >= n THEN G
  ELSE IF G.j + 1 = n THEN AddDeviceEvent(G)
  ELSE DeviceEventLoop(DeviceEventLoop(G, (G.j + n) \div 2), n)

DeviceEventsOf(G) == DeviceEventLoop(G, G.count)

DeviceEventsStep(G) ==
  Done(DeviceEventsOf(Counted(G, Calls(G.rng,
                                       <<CallIntBetween(G.cfg.deviceEventsPerDeviceMin,
                                                        G.cfg.deviceEventsPerDeviceMax)>>))))

\* ---- usage records: pass j of the inner loop for the subscriber s
\* Math.ceil(a / b) for positive integers
Ceil(a, b) == (a + b - 1) \div b

\* ratedCents with the quotients rounded down
ratedCentsFloor(usageType, units) ==
  IF usageType = T("sms") THEN 0
  ELSE IF usageType = T("voice") THEN (units \div 60) * 4
  ELSE (units \div 1024) * 2

ratedCents(usageType, units) ==
  IF usageType = T("sms") THEN 0
  ELSE IF usageType = T("voice") THEN Ceil(units, 60) * 4
  ELSE Ceil(units, 1024) * 2

UnitsCalls(usageType) ==
  IF usageType = T("voice") THEN <<CallIntBetween(30, 600)>>
  ELSE IF usageType = T("sms") THEN <<CallIntBetween(1, 5)>>
  ELSE <<CallIntBetween(256, 10240)>>

UsageRecord(G, s, R) ==
  [G EXCEPT
     !.rng = R.g,
     !.ids.usageRecordId = @ + 1,
     !.d.usage_records = Append(@, [usageRecordId |-> G.ids.usageRecordId,
                                    subscriberId |-> s.subscriberId,
                                    ts |-> iso(EventAt(G.cfg, R.v[1])),
                                    usageType |-> R.v[2],
                                    units |-> R.v[3],
                                    ratedCents |-> ratedCents(R.v[2], R.v[3])]),
     !.j = @ + 1]

Metered(R) == More(R, UnitsCalls(R.v[2]))

AddUsageRecord(G) ==
  UsageRecord(G, G.d.subscribers[G.i + 1],
              Metered(Calls(G.rng, <<CallIntBetween(1, G.cfg.days * 24 * 60),
                                     CallChoice(usageTypes)>>)))

RECURSIVE UsageLoop(_, _)
UsageLoop(G, n) ==
  IF G.j >= n THEN G
  ELSE IF G.j + 1 = n THEN AddUsageRecord(G)
  ELSE UsageLoop(UsageLoop(G, (G.j + n) \div 2), n)

\* UsageStep with the loop ended one pass early
UsageStepEndedEarly(G) == Done(UsageLoop(G, G.cfg.usageRecordsPerSubscriber - 1))

UsageStep(G) == Done(UsageLoop(G, G.cfg.usageRecordsPerSubscriber))

\* ---- Array.prototype.sort with a numeric comparator: a stable sort.  The
\* comparators used are differences of one or two numeric fields, given here
\* as the pair of numbers of each row.
compare(ka, kb) == IF ka[1] - kb[1] # 0 THEN ka[1] - kb[1] ELSE ka[2] - kb[2]

\* the place of arr[k] after sorting: behind the rows that compare below it
\* and the equal rows that stood before it
Place(arr, key(_), k) ==
  Cardinality({j \in DOMAIN arr :
                 LET c == compare(key(arr[j]), key(arr[k]))
                 IN  c < 0 \/ (c = 0 /\ j <= k)})

InOrder(arr, key(_)) ==
  \A k \in 1..(Len(arr) - 1) : compare(key(arr[k]), key(arr[k + 1])) <= 0

sort(arr, key(_)) ==
  IF InOrder(arr, key) THEN arr
  ELSE LET place == [k \in DOMAIN arr |-> Place(arr, key, k)]
       IN  [p \in DOMAIN arr |-> arr[CHOOSE k \in DOMAIN arr : place[k] = p]]

byAccountId(r) == <<r.accountId, 0>>
bySubscriberId(r) == <<r.subscriberId, 0>>
byDeviceId(r) == <<r.deviceId, 0>>
byOrderId(r) == <<r.orderId, 0>>
byOrderItemId(r) == <<r.orderItemId, 0>>
bySubscriberThenFeature(r) == <<r.subscriberId, r.featureId>>
bySubscriberFeatureStateId(r) == <<r.subscriberFeatureStateId, 0>>
byTicketId(r) == <<r.ticketId, 0>>
byNoteId(r) == <<r.noteId, 0>>
byDeviceEventId(r) == <<r.deviceEventId, 0>>
byUsageRecordId(r) == <<r.usageRecordId, 0>>

ReturnStep(G) ==
  [G EXCEPT !.d.accounts = sort(@, byAccountId),
            !.d.subscribers = sort(@, bySubscriberId),
            !.d.subscriber_profiles = sort(@, bySubscriberId),
            !.d.devices = sort(@, byDeviceId),
            !.d.orders = sort(@, byOrderId),
            !.d.order_items = sort(@, byOrderItemId),
            !.d.subscriber_features = sort(@, bySubscriberThenFeature),
            !.d.subscriber_feature_state = sort(@, bySubscriberFeatureStateId),
            !.d.tickets = sort(@, byTicketId),
            !.d.notes = sort(@, byNoteId),
            !.d.device_events = sort(@, byDeviceEventId),
            !.d.usage_records = sort(@, byUsageRecordId),
            !.i = @ + 1]

\* ---- the order of the loops, and the number of iterations of each
\* the loops with the orders generated before the devices
PhasesOrdersFirst ==
  <<"accounts", "subscribers", "orders", "devices", "features", "feature_state",
    "tickets", "notes", "device_events", "usage_records", "return", "done">>

Phases == <<"accounts", "subscribers", "devices", "orders", "features", "feature_state",
            "tickets", "notes", "device_events", "usage_records", "return", "done">>

PhaseIndex(pc) == CHOOSE k \in DOMAIN Phases : Phases[k] = pc

Iterations(G) ==
  CASE G.pc = "accounts" -> G.cfg.accounts
    [] G.pc = "subscribers" -> Len(G.d.accounts)
    [] G.pc = "devices" -> Len(G.d.subscribers)
    [] G.pc = "orders" -> Len(G.d.accounts)
    [] G.pc = "features" -> Len(G.d.subscribers)
    [] G.pc = "feature_state" -> Len(G.d.subscriber_features)
    [] G.pc = "tickets" -> Len(G.d.subscribers)
    [] G.pc = "notes" -> 1
    [] G.pc = "device_events" -> Len(G.d.devices)
    [] G.pc = "usage_records" -> Len(G.d.subscribers)
    [] G.pc = "return" -> 1
    [] OTHER -> 0

\* leaving a loop: the statements between it and the next loop
Enter(G, pc) ==
  CASE pc = "features" -> [G EXCEPT !.pc = pc, !.i = 0, !.d.features = FEATURE_DEFS]
    [] pc = "tickets" -> [G EXCEPT !.pc = pc, !.i = 0, !.d.ticket_status_codes = TICKET_STATUS]
    [] OTHER -> [G EXCEPT !.pc = pc, !.i = 0]

RECURSIVE Settle(_)
Settle(G) ==
  IF G.pc = "done" \/ G.i < Iterations(G) THEN G
  ELSE Settle(Enter(G, Phases[PhaseIndex(G.pc) + 1]))

Body(G) ==
  CASE G.pc = "accounts" -> AccountStep(G)
    [] G.pc = "subscribers" -> SubscribersStep(G)
    [] G.pc = "devices" -> DeviceStep(G)
    [] G.pc = "orders" -> OrdersStep(G)
    [] G.pc = "features" -> FeaturesStep(G)
    [] G.pc = "feature_state" -> FeatureStateStep(G)
    [] G.pc = "tickets" -> TicketsStep(G)
    [] G.pc = "notes" -> NotesStep(G)
    [] G.pc = "device_events" -> DeviceEventsStep(G)
    [] G.pc = "usage_records" -> UsageStep(G)
    [] G.pc = "return" -> ReturnStep(G)

Step(G) == Settle(Body(G))

\* the loops one after the other, to the return
RECURSIVE BodyLoop(_, _)
BodyLoop(G, n) ==
  IF G.i >= n THEN G
  ELSE IF G.i + 1 = n THEN Body(G)
  ELSE BodyLoop(BodyLoop(G, (G.i + n) \div 2), n)

\* one whole loop, and the loops up to the one numbered n in Phases
Loop(G) == Settle(BodyLoop(G, Iterations(G)))

RECURSIVE Run(_, _)
Run(G, n) ==
  IF PhaseIndex(G.pc) >= n THEN G
  ELSE IF PhaseIndex(G.pc) + 1 = n THEN Loop(G)
  ELSE Run(Run(G, (PhaseIndex(G.pc) + n) \div 2), n)

generateCanonical(rng, cfg) == Run(Settle(GenStart(rng, cfg)), Len(Phases)).d

(***************************************************************************)
(* The shape of the data: the entities in the order generateAll writes     *)
(* them, the keys of each row in the order its object literal gives them,  *)
(* and the JavaScript type of the value under each key.  A value of the    *)
(* model does not carry its type, so the type is read from the key.        *)
(***************************************************************************)
entityOrder ==
  <<"accounts", "subscribers", "subscriber_profiles", "devices", "device_events", "orders",
    "order_items", "features", "subscriber_features", "subscriber_feature_state",
    "ticket_status_codes", "tickets", "notes", "org_units", "plans", "regions",
    "device_classes", "rates", "usage_records">>

Fields ==
  [accounts |-> <<"accountId", "accountNumber", "name", "billingRegionCode", "status",
                  "createdAt">>,
   subscribers |-> <<"subscriberId", "accountId", "msisdn", "status", "createdAt">>,
   subscriber_profiles |-> <<"subscriberId", "firstName", "lastName", "email", "dob",
                             "piiLast4Ssn", "preferences", "updatedAt">>,
   devices |-> <<"deviceId", "subscriberId", "imei", "model", "createdAt">>,
   device_events |-> <<"deviceEventId", "deviceId", "eventType", "ts", "payload">>,
   orders |-> <<"orderId", "accountId", "status", "createdAt">>,
   order_items |-> <<"orderItemId", "orderId", "sku", "qty", "priceCents">>,
   features |-> <<"featureId", "code", "name">>,
   subscriber_features |-> <<"subscriberId", "featureId">>,
   subscriber_feature_state |-> <<"subscriberFeatureStateId", "subscriberId", "featureId",
                                  "effectiveFrom", "effectiveTo", "provisioningState",
                                  "source">>,
   ticket_status_codes |-> <<"code", "description">>,
   tickets |-> <<"ticketId", "subscriberId", "statusCode", "openedAt", "closedAt", "summary">>,
   notes |-> <<"noteId", "refType", "refId", "author", "body", "createdAt">>,
   org_units |-> <<"orgUnitId", "name", "parentOrgUnitId">>,
   plans |-> <<"planId", "code", "name">>,
   regions |-> <<"regionId", "code">>,
   device_classes |-> <<"deviceClassId", "code">>,
   rates |-> <<"planId", "regionId", "deviceClassId", "rateCents">>,
   usage_records |-> <<"usageRecordId", "subscriberId", "ts", "usageType", "units",
                       "ratedCents">>]

\* the keys of the objects nested in a row, in the order they are set
PayloadKeys ==
  <<"cellId", "rssi", "fromCellId", "toCellId", "apn", "ip", "bytesUp", "bytesDown", "p50Ms",
    "p95Ms", "cause">>

PreferenceKeys == <<"marketingOptIn", "paperlessBilling">>

ItemKeys == <<"orderItemId", "sku", "qty", "priceCents">>

NumberKeys ==
  {"accountId", "subscriberId", "deviceId", "deviceEventId", "orderId", "orderItemId", "qty",
   "priceCents", "featureId", "subscriberFeatureStateId", "ticketId", "noteId", "refId",
   "orgUnitId", "parentOrgUnitId", "planId", "regionId", "deviceClassId", "rateCents",
   "usageRecordId", "units", "ratedCents", "rssi", "bytesUp", "bytesDown", "p50Ms", "p95Ms"}

BooleanKeys == {"marketingOptIn", "paperlessBilling"}

\* typeof of the value under a key of an entity's row; the _id of a ticket
\* status code is its code, every other _id is a number
TypeOf(name, key) ==
  IF key = "_id" THEN (IF name = "ticket_status_codes" THEN "string" ELSE "number")
  ELSE IF key \in NumberKeys THEN "number"
  ELSE IF key \in BooleanKeys THEN "boolean"
  ELSE IF key \in {"preferences", "payload", "profile"} THEN "object"
  ELSE IF key \in {"featureCodes", "items"} THEN "array"
  ELSE "string"

(***************************************************************************)
(* Text building                                                           *)
(***************************************************************************)
\* the concatenation of the texts ss[lo..hi]
RECURSIVE Flatten(_, _, _)
Flatten(ss, lo, hi) ==
  IF lo > hi THEN <<>>
  ELSE IF lo = hi THEN ss[lo]
  ELSE Flatten(ss, lo, (lo + hi) \div 2) \o Flatten(ss, (lo + hi) \div 2 + 1, hi)

\* parts.join(sep)
join(parts, sep) ==
  Flatten([k \in 1..(2 * Len(parts) - 1) |-> IF k % 2 = 1 THEN parts[(k + 1) \div 2] ELSE sep],
          1, 2 * Len(parts) - 1)

\* the chunks of s, each replaced by the text table gives it (itself if none)
ReplaceChunks(s, table) ==
  IF \A k \in DOMAIN s : s[k] \notin DOMAIN table THEN s
  ELSE Flatten([k \in DOMAIN s |-> IF s[k] \in DOMAIN table THEN table[s[k]] ELSE <<s[k]>>],
               1, Len(s))

includes(s, chunk) == \E k \in DOMAIN s : s[k] = chunk

(***************************************************************************)
(* JSON.stringify                                                          *)
(***************************************************************************)
JsonEscapes ==
  [c \in {"\"", "\\", "\n", "\r"} |->
     IF c = "\"" THEN <<"\\", "\"">>
     ELSE IF c = "\\" THEN <<"\\", "\\">>
     ELSE IF c = "\n" THEN <<"\\", "n">>
     ELSE <<"\\", "r">>]

JsonText(s) == <<"\"">> \o ReplaceChunks(s, JsonEscapes) \o <<"\"">>

KeysIn(obj, keys) == SelectSeq(keys, LAMBDA k : k \in DOMAIN obj)

\* the keys of the object under a key
NestedKeys(key) ==
  IF key = "preferences" THEN PreferenceKeys
  ELSE IF key = "payload" THEN PayloadKeys
  ELSE IF key = "profile" THEN Tail(Fields.subscriber_profiles)
  ELSE ItemKeys

RECURSIVE JsonObject(_, _, _)
JsonValue(name, key, val) ==
  IF IsNull(val) THEN <<"null">>
  ELSE CASE TypeOf(name, key) = "number" -> String(val)
         [] TypeOf(name, key) = "boolean" -> IF val THEN <<"true">> ELSE <<"false">>
         [] TypeOf(name, key) = "string" -> JsonText(val)
         [] TypeOf(name, key) = "object" -> JsonObject(name, val, NestedKeys(key))
         [] TypeOf(name, key) = "array" ->
              <<"[">>
              \o join([k \in DOMAIN val |->
                         IF key = "items" THEN JsonObject(name, val[k], ItemKeys)
                         ELSE JsonText(val[k])], <<",">>)
              \o <<"]">>

JsonObject(name, obj, keys) ==
  LET present == KeysIn(obj, keys)
  IN  <<"{">>
      \o join([k \in DOMAIN present |->
                 <<"\"", present[k], "\"", ":">> \o JsonValue(name, present[k], obj[present[k]])],
              <<",">>)
      \o <<"}">>

\* jsonString with its test for null inverted
jsonStringInverted(name, key, v) == IF ~IsNull(v) THEN NULL ELSE <<"null">>

\* jsonString(v): the JSON text of an object, or null
jsonString(name, key, v) == IF IsNull(v) THEN NULL ELSE JsonValue(name, key, v)

(***************************************************************************)
(* CSV helpers                                                             *)
(***************************************************************************)
\* s.replace(/\r\n/g, '\n').replace(/\r/g, '\n')
NormalizeNewlines(s) ==
  IF ~includes(s, "\r") THEN s
  ELSE Flatten([k \in DOMAIN s |->
                  IF s[k] # "\r" THEN <<s[k]>>
                  ELSE IF k < Len(s) /\ s[k + 1] = "\n" THEN <<>>
                  ELSE <<"\n">>], 1, Len(s))

\* csvEscape without the doubling of the double quotes
csvEscapeUndoubled(type, val) ==
  IF IsNull(val) THEN <<>>
  ELSE LET s == NormalizeNewlines(IF type = "number" THEN String(val) ELSE val)
           needsQuotes == includes(s, ",") \/ includes(s, "\"") \/ includes(s, "\n")
       IN  IF needsQuotes THEN <<"\"">> \o s \o <<"\"">> ELSE s

\* csvEscape(val), val of the given JavaScript type
csvEscape(type, val) ==
  IF IsNull(val) THEN <<>>
  ELSE LET s == NormalizeNewlines(IF type = "number" THEN String(val) ELSE val)
           needsQuotes == includes(s, ",") \/ includes(s, "\"") \/ includes(s, "\n")
           doubled == IF includes(s, "\"") THEN ReplaceChunks(s, [c \in {"\""} |-> <<"\"", "\"">>])
                      ELSE s
       IN  IF needsQuotes THEN <<"\"">> \o doubled \o <<"\"">> ELSE doubled

\* the columns of the CSV bundles that hold numbers
NumberColumns ==
  {"account_id", "subscriber_id", "device_id", "device_event_id", "order_id", "order_item_id",
   "qty", "price_cents", "feature_id", "subscriber_feature_state_id", "ticket_id", "note_id",
   "ref_id", "org_unit_id", "parent_org_unit_id", "plan_id", "region_id", "device_class_id",
   "rate_cents", "usage_record_id", "units", "rated_cents"}

ColumnType(h) == IF h \in NumberColumns THEN "number" ELSE "string"

toCsv(headers, rows) ==
  LET headerLine == join([k \in DOMAIN headers |-> <<headers[k]>>], <<",">>)
      line(r) == join([k \in DOMAIN headers |-> csvEscape(ColumnType(headers[k]), r[headers[k]])],
                      <<",">>)
      lines == <<headerLine>> \o [k \in DOMAIN rows |-> line(rows[k])]
  IN  join(lines, <<"\n">>) \o <<"\n">>

(***************************************************************************)
(* Projections                                                             *)
(***************************************************************************)
\* { [key]: val, ...r }
WithKey(r, key, val) == [k \in {key} \cup DOMAIN r |-> IF k = key THEN val ELSE r[k]]

withId(rows, idField) == [k \in DOMAIN rows |-> WithKey(rows[k], "_id", rows[k][idField])]

\* rows.map(r => ({ _id: seq++, ...r })), seq being first at the start
\* withSeq with the counter incremented before it is read
withSeqAfter(rows, first) == [k \in DOMAIN rows |-> WithKey(rows[k], "_id", first + k)]

withSeq(rows, first) == [k \in DOMAIN rows |-> WithKey(rows[k], "_id", first + k - 1)]

toMongoNormalized(canonical) ==
  LET seq0 == 1
      seq1 == seq0 + Len(canonical.subscriber_features)
  IN  [accounts |-> withId(canonical.accounts, "accountId"),
       subscribers |-> withId(canonical.subscribers, "subscriberId"),
       subscriber_profiles |-> withId(canonical.subscriber_profiles, "subscriberId"),
       devices |-> withId(canonical.devices, "deviceId"),
       device_events |-> withId(canonical.device_events, "deviceEventId"),
       orders |-> withId(canonical.orders, "orderId"),
       order_items |-> withId(canonical.order_items, "orderItemId"),
       features |-> withId(canonical.features, "featureId"),
       subscriber_features |-> withSeq(canonical.subscriber_features, seq0),
       subscriber_feature_state |->
         withId(canonical.subscriber_feature_state, "subscriberFeatureStateId"),
       ticket_status_codes |->
         [k \in DOMAIN canonical.ticket_status_codes |->
            WithKey(canonical.ticket_status_codes[k], "_id", canonical.ticket_status_codes[k].code)],
       tickets |-> withId(canonical.tickets, "ticketId"),
       notes |-> withId(canonical.notes, "noteId"),
       org_units |-> withId(canonical.org_units, "orgUnitId"),
       plans |-> withId(canonical.plans, "planId"),
       regions |-> withId(canonical.regions, "regionId"),
       device_classes |-> withId(canonical.device_classes, "deviceClassId"),
       rates |-> withSeq(canonical.rates, seq1),
       usage_records |-> withId(canonical.usage_records, "usageRecordId")]

\* new Map(rows.map(r => [r[key], r])).get(id): the last row under the key, if any
Last(rows, key, id) ==
  LET at == {k \in DOMAIN rows : rows[k][key] = id}
  IN  IF at = {} THEN NULL ELSE rows[CHOOSE k \in at : \A j \in at : j <= k]

\* the UTF-16 code units of the feature codes, which the default sort compares
CodeUnits ==
  [HOTSPOT |-> <<72, 79, 84, 83, 80, 79, 84>>,
   INTL_ROAM |-> <<73, 78, 84, 76, 95, 82, 79, 65, 77>>,
   DEVICE_PROTECT |-> <<68, 69, 86, 73, 67, 69, 95, 80, 82, 79, 84, 69, 67, 84>>,
   VISUAL_VM |-> <<86, 73, 83, 85, 65, 76, 95, 86, 77>>]

\* a < b in the order of Array.prototype.sort without a comparator
Before(a, b) ==
  LET x == CodeUnits[a[1]]
      y == CodeUnits[b[1]]
  IN  \E k \in 1..(Len(y)) :
        /\ \A j \in 1..(k - 1) : j <= Len(x) /\ x[j] = y[j]
        /\ (k > Len(x) \/ x[k] < y[k])

\* the codes as they come, neither deduplicated nor sorted
Unsorted(codes) == codes

\* Array.from(new Set(codes)).sort()
SortedSet(codes) ==
  LET firsts == SelectSeq([k \in DOMAIN codes |-> IF \E j \in 1..(k - 1) : codes[j] = codes[k]
                                                   THEN <<>> ELSE codes[k]],
                          LAMBDA c : c # <<>>)
      place(k) == Cardinality({j \in DOMAIN firsts : Before(firsts[j], firsts[k])}) + 1
  IN  [p \in DOMAIN firsts |-> firsts[CHOOSE k \in DOMAIN firsts : place(k) = p]]

featureCodesOf(canonical, subscriberId) ==
  LET linked == SelectSeq(canonical.subscriber_features,
                          LAMBDA sf : /\ sf.subscriberId = subscriberId
                                      /\ ~IsNull(Last(canonical.features, "featureId",
                                                      sf.featureId)))
  IN  [k \in DOMAIN linked |-> Last(canonical.features, "featureId", linked[k].featureId).code]

optimizedSubscriber(canonical, cfg, s) ==
  LET prof == Last(canonical.subscriber_profiles, "subscriberId", s.subscriberId)
      rest == [k \in DOMAIN prof \ {"subscriberId"} |-> prof[k]]
      codes == featureCodesOf(canonical, s.subscriberId)
      keys == DOMAIN s \cup (IF IsNull(prof) THEN {} ELSE {"profile"})
                       \cup (IF cfg.embedFeatureCodes THEN {"featureCodes"} ELSE {})
  IN  [k \in keys |-> IF k = "profile" THEN rest
                      ELSE IF k = "featureCodes" THEN SortedSet(codes)
                      ELSE s[k]]

\* optimizedOrder with the items of every order
optimizedOrderOfAll(mongoNormalized, o) ==
  LET mine == mongoNormalized.order_items
      items == [k \in DOMAIN mine |->
                  [orderItemId |-> mine[k].orderItemId, sku |-> mine[k].sku, qty |-> mine[k].qty,
                   priceCents |-> mine[k].priceCents]]
  IN  WithKey(o, "items", sort(items, byOrderItemId))

optimizedOrder(mongoNormalized, o) ==
  LET mine == SelectSeq(mongoNormalized.order_items, LAMBDA it : it.orderId = o.orderId)
      items == [k \in DOMAIN mine |->
                  [orderItemId |-> mine[k].orderItemId, sku |-> mine[k].sku, qty |-> mine[k].qty,
                   priceCents |-> mine[k].priceCents]]
  IN  WithKey(o, "items", sort(items, byOrderItemId))

\* toMongoOptimized without the removal of order_items
toMongoOptimizedKeeping(canonical, mongoNormalized, cfg) ==
  [name \in DOMAIN mongoNormalized \ {"subscriber_profiles"} |->
     IF name = "subscribers"
     THEN [k \in DOMAIN mongoNormalized.subscribers |->
             optimizedSubscriber(canonical, cfg, mongoNormalized.subscribers[k])]
     ELSE IF name = "orders"
     THEN [k \in DOMAIN mongoNormalized.orders |->
             optimizedOrder(mongoNormalized, mongoNormalized.orders[k])]
     ELSE mongoNormalized[name]]

toMongoOptimized(canonical, mongoNormalized, cfg) ==
  [name \in DOMAIN mongoNormalized \ {"order_items", "subscriber_profiles"} |->
     IF name = "subscribers"
     THEN [k \in DOMAIN mongoNormalized.subscribers |->
             optimizedSubscriber(canonical, cfg, mongoNormalized.subscribers[k])]
     ELSE IF name = "orders"
     THEN [k \in DOMAIN mongoNormalized.orders |->
             optimizedOrder(mongoNormalized, mongoNormalized.orders[k])]
     ELSE mongoNormalized[name]]

\* v ?? null
OrNull(v) == IF IsNull(v) THEN NULL ELSE v

Map(rows, f(_)) == [k \in DOMAIN rows |-> f(rows[k])]

toPostgresCsvBundles(canonical) ==
  LET account(r) == [account_id |-> r.accountId, account_number |-> r.accountNumber,
                     name |-> r.name, billing_region_code |-> r.billingRegionCode,
                     status |-> r.status, created_at |-> r.createdAt]
      subscriber(r) == [subscriber_id |-> r.subscriberId, account_id |-> r.accountId,
                        msisdn |-> r.msisdn, status |-> r.status, created_at |-> r.createdAt]
      profile(r) == [subscriber_id |-> r.subscriberId, first_name |-> OrNull(r.firstName),
                     last_name |-> OrNull(r.lastName), email |-> OrNull(r.email),
                     dob |-> OrNull(r.dob), pii_last4_ssn |-> OrNull(r.piiLast4Ssn),
                     preferences |-> jsonString("subscriber_profiles", "preferences",
                                                r.preferences),
                     updated_at |-> r.updatedAt]
      device(r) == [device_id |-> r.deviceId, subscriber_id |-> r.subscriberId, imei |-> r.imei,
                    model |-> r.model, created_at |-> r.createdAt]
      deviceEvent(r) == [device_event_id |-> r.deviceEventId, device_id |-> r.deviceId,
                         event_type |-> r.eventType, ts |-> r.ts,
                         payload |-> jsonString("device_events", "payload", r.payload)]
      order(r) == [order_id |-> r.orderId, account_id |-> r.accountId, status |-> r.status,
                   created_at |-> r.createdAt]
      orderItem(r) == [order_item_id |-> r.orderItemId, order_id |-> r.orderId, sku |-> r.sku,
                       qty |-> r.qty, price_cents |-> r.priceCents]
      feature(r) == [feature_id |-> r.featureId, code |-> r.code, name |-> r.name]
      subscriberFeature(r) == [subscriber_id |-> r.subscriberId, feature_id |-> r.featureId]
      featureState(r) == [subscriber_feature_state_id |-> r.subscriberFeatureStateId,
                          subscriber_id |-> r.subscriberId, feature_id |-> r.featureId,
                          effective_from |-> r.effectiveFrom, effective_to |-> r.effectiveTo,
                          provisioning_state |-> r.provisioningState, source |-> r.source]
      statusCode(r) == [code |-> r.code, description |-> r.description]
      ticket(r) == [ticket_id |-> r.ticketId, subscriber_id |-> r.subscriberId,
                    status_code |-> r.statusCode, opened_at |-> r.openedAt,
                    closed_at |-> r.closedAt, summary |-> r.summary]
      note(r) == [note_id |-> r.noteId, ref_type |-> r.refType, ref_id |-> r.refId,
                  author |-> r.author, body |-> r.body, created_at |-> r.createdAt]
      orgUnit(r) == [org_unit_id |-> r.orgUnitId, name |-> r.name,
                     parent_org_unit_id |-> r.parentOrgUnitId]
      plan(r) == [plan_id |-> r.planId, code |-> r.code, name |-> r.name]
      region(r) == [region_id |-> r.regionId, code |-> r.code]
      deviceClass(r) == [device_class_id |-> r.deviceClassId, code |-> r.code]
      rate(r) == [plan_id |-> r.planId, region_id |-> r.regionId,
                  device_class_id |-> r.deviceClassId, rate_cents |-> r.rateCents]
      usageRecord(r) == [usage_record_id |-> r.usageRecordId, subscriber_id |-> r.subscriberId,
                         ts |-> r.ts, usage_type |-> r.usageType, units |-> r.units,
                         rated_cents |-> r.ratedCents]
  IN  <<[filename |-> "accounts.csv",
         headers |-> <<"account_id", "account_number", "name", "billing_region_code", "status",
                       "created_at">>,
         rows |-> Map(canonical.accounts, account)],
        [filename |-> "subscribers.csv",
         headers |-> <<"subscriber_id", "account_id", "msisdn", "status", "created_at">>,
         rows |-> Map(canonical.subscribers, subscriber)],
        [filename |-> "subscriber_profiles.csv",
         headers |-> <<"subscriber_id", "first_name", "last_name", "email", "dob",
                       "pii_last4_ssn", "preferences", "updated_at">>,
         rows |-> Map(canonical.subscriber_profiles, profile)],
        [filename |-> "devices.csv",
         headers |-> <<"device_id", "subscriber_id", "imei", "model", "created_at">>,
         rows |-> Map(canonical.devices, device)],
        [filename |-> "device_events.csv",
         headers |-> <<"device_event_id", "device_id", "event_type", "ts", "payload">>,
         rows |-> Map(canonical.device_events, deviceEvent)],
        [filename |-> "orders.csv",
         headers |-> <<"order_id", "account_id", "status", "created_at">>,
         rows |-> Map(canonical.orders, order)],
        [filename |-> "order_items.csv",
         headers |-> <<"order_item_id", "order_id", "sku", "qty", "price_cents">>,
         rows |-> Map(canonical.order_items, orderItem)],
        [filename |-> "features.csv",
         headers |-> <<"feature_id", "code", "name">>,
         rows |-> Map(canonical.features, feature)],
        [filename |-> "subscriber_features.csv",
         headers |-> <<"subscriber_id", "feature_id">>,
         rows |-> Map(canonical.subscriber_features, subscriberFeature)],
        [filename |-> "subscriber_feature_state.csv",
         headers |-> <<"subscriber_feature_state_id", "subscriber_id", "feature_id",
                       "effective_from", "effective_to", "provisioning_state", "source">>,
         rows |-> Map(canonical.subscriber_feature_state, featureState)],
        [filename |-> "ticket_status_codes.csv",
         headers |-> <<"code", "description">>,
         rows |-> Map(canonical.ticket_status_codes, statusCode)],
        [filename |-> "tickets.csv",
         headers |-> <<"ticket_id", "subscriber_id", "status_code", "opened_at", "closed_at",
                       "summary">>,
         rows |-> Map(canonical.tickets, ticket)],
        [filename |-> "notes.csv",
         headers |-> <<"note_id", "ref_type", "ref_id", "author", "body", "created_at">>,
         rows |-> Map(canonical.notes, note)],
        [filename |-> "org_units.csv",
         headers |-> <<"org_unit_id", "name", "parent_org_unit_id">>,
         rows |-> Map(canonical.org_units, orgUnit)],
        [filename |-> "plans.csv",
         headers |-> <<"plan_id", "code", "name">>,
         rows |-> Map(canonical.plans, plan)],
        [filename |-> "regions.csv",
         headers |-> <<"region_id", "code">>,
         rows |-> Map(canonical.regions, region)],
        [filename |-> "device_classes.csv",
         headers |-> <<"device_class_id", "code">>,
         rows |-> Map(canonical.device_classes, deviceClass)],
        [filename |-> "rates.csv",
         headers |-> <<"plan_id", "region_id", "device_class_id", "rate_cents">>,
         rows |-> Map(canonical.rates, rate)],
        [filename |-> "usage_records.csv",
         headers |-> <<"usage_record_id", "subscriber_id", "ts", "usage_type", "units",
                       "rated_cents">>,
         rows |-> Map(canonical.usage_records, usageRecord)]>>

(***************************************************************************)
(* The state.  gen is generateCanonical stopped between two iterations of  *)
(* its loops and steps counts the iterations done; dest, clock and run are *)
(* a destination directory, the wall clock and the last run of the command *)
(* against that directory, runs counts the runs.  memo holds results of    *)
(* the pure functions of the pipeline, computed once for the seeds the     *)
(* command is run with: a function applied to arguments memo holds takes   *)
(* its result there, and is computed otherwise.  call is the last          *)
(* application of one of the helper functions on its own: the function,    *)
(* its arguments, its position pc (called, then returned, or threw had it  *)
(* thrown) and what it returned.  load is a psql session running load.sql  *)
(* in one transaction: the CSV files of its data_dir, the statement it is  *)
(* at, the rows of the tables and the tables loaded so far, in order.      *)
(* rngs are the generators mulberry32 returned to a caller that draws from *)
(* them in any order: each with its seed, its cursor and what it drew.     *)
(***************************************************************************)
VARIABLES gen, steps, dest, clock, run, runs, memo, call, load, rngs

vars == <<gen, steps, dest, clock, run, runs, memo, call, load, rngs>>

\* value, which is what the function called name returns for the arguments key
Cached(name, key, value) ==
  IF name \in DOMAIN memo /\ key \in DOMAIN memo[name] THEN memo[name][key] ELSE value

(***************************************************************************)
(* The file system and the clock.  A path is the sequence of its           *)
(* components; an instant of the wall clock is a number of seconds and a   *)
(* number of milliseconds, the seconds alone filling a 32-bit integer.     *)
(***************************************************************************)
\* path.join(dir, name)
pathJoin(dir, name) == Append(dir, name)

\* path.dirname(p)
dirname(p) == SubSeq(p, 1, Len(p) - 1)

\* fs.existsSync(p)
existsSync(disk, p) == p \in DOMAIN disk.files \/ p \in disk.dirs

\* ensureDir(p): fs.mkdirSync(p, { recursive: true })
ensureDir(disk, p) == [disk EXCEPT !.dirs = @ \cup {SubSeq(p, 1, k) : k \in 1..Len(p)}]

\* fs.writeFileSync(filePath, data, 'utf8'); every caller has made the
\* directory before, and writes records the order of the writes of a run
writeFileSync(disk, filePath, data) ==
  [disk EXCEPT !.files = (filePath :> data) @@ @, !.writes = Append(@, filePath)]

\* the keys of the documents of a collection, in the order JSON.stringify
\* meets them: _id first in the projections, the embedded fields last
DocKeys(shape, name) ==
  IF shape = "canonical" THEN Fields[name]
  ELSE <<"_id">> \o Fields[name]
       \o (IF shape = "mongo_optimized" /\ name = "subscribers" THEN <<"profile", "featureCodes">>
           ELSE IF shape = "mongo_optimized" /\ name = "orders" THEN <<"items">>
           ELSE <<>>)

\* rows.map(r => JSON.stringify(r)).join('\n') + (rows.length ? '\n' : '')
NdjsonText(shape, name, rows) ==
  join([k \in DOMAIN rows |-> JsonObject(name, rows[k], DocKeys(shape, name))], <<"\n">>)
  \o (IF Len(rows) > 0 THEN <<"\n">> ELSE <<>>)

writeNdjson(disk, filePath, shape, name, rows) ==
  writeFileSync(disk, filePath,
                Cached("NdjsonText", <<shape, name, rows>>, NdjsonText(shape, name, rows)))

\* safeWrite: the disk after it, or the message of the error it throws
safeWrite(disk, filePath, contents, overwrite) ==
  IF ~overwrite /\ existsSync(disk, filePath)
  THEN [disk |-> disk,
        threw |-> T("Refusing to overwrite existing file: ") \o join(filePath, T("/"))
                  \o T(" (use --overwrite)")]
  ELSE [disk |-> writeFileSync(ensureDir(disk, dirname(filePath)), filePath, contents),
        threw |-> NULL]

\* new Date().toISOString() at the instant now: the text of the second with
\* the milliseconds put before the Z
WithMillis(text, ms) == SubSeq(text, 1, Len(text) - 1) \o <<".">> \o padNum(ms, 3) \o <<"Z">>

toISOString(now) == WithMillis(iso(now.s), now.ms)

(***************************************************************************)
(* The command line                                                        *)
(***************************************************************************)
\* a JavaScript number: an integer, or NaN
Num(n) == [finite |-> TRUE, v |-> n]

NaN == [finite |-> FALSE, v |-> 0]

\* Number(text) for undefined, the empty text, a text of digits, any other text
Number(text) ==
  IF IsNull(text) THEN NaN
  ELSE IF text = <<>> THEN Num(0)
  ELSE IF \A k \in DOMAIN text : text[k] \in Range(DigitChars) THEN Num(ParseDigits(text, 1, Len(text)))
  ELSE NaN

\* `${value}` of a text or of undefined
Show(text) == IF IsNull(text) THEN T("undefined") ELSE text

\* `${value}` of a number
ShowNumber(n) == IF n.finite THEN String(n.v) ELSE T("NaN")

\* argv[i], i counted from 0
At(argv, i) == IF i + 1 \in DOMAIN argv THEN argv[i + 1] ELSE NULL

defaultArgs ==
  [size |-> T("S"), seed |-> Num(42), out |-> <<T("seed")>>, only |-> T("all"),
   overwrite |-> FALSE, help |-> FALSE, threw |-> NULL]

\* the loop of parseArgs from argv[i] on
RECURSIVE ParseLoop(_, _, _)
ParseLoop(argv, i, args) ==
  IF i >= Len(argv) THEN args
  ELSE LET a == At(argv, i)
       IN  IF a = T("--size") THEN ParseLoop(argv, i + 2, [args EXCEPT !.size = At(argv, i + 1)])
           ELSE IF a = T("--seed")
           THEN ParseLoop(argv, i + 2, [args EXCEPT !.seed = Number(At(argv, i + 1))])
           ELSE IF a = T("--out")
           THEN IF IsNull(At(argv, i + 1))
                THEN [args EXCEPT !.threw = T("The \"paths[0]\" argument must be of type string. Received undefined")]
                ELSE ParseLoop(argv, i + 2, [args EXCEPT !.out = <<At(argv, i + 1)>>])
           ELSE IF a = T("--only") THEN ParseLoop(argv, i + 2, [args EXCEPT !.only = At(argv, i + 1)])
           ELSE IF a = T("--overwrite") THEN ParseLoop(argv, i + 1, [args EXCEPT !.overwrite = TRUE])
           ELSE IF a = T("-h") \/ a = T("--help") THEN [args EXCEPT !.help = TRUE]
           ELSE [args EXCEPT !.threw = T("Unknown arg: ") \o a]

\* the checks parseArgs makes after its loop
Validated(args) ==
  IF args.help \/ ~IsNull(args.threw) THEN args
  ELSE IF args.size \notin {T("S"), T("M"), T("L")}
  THEN [args EXCEPT !.threw = T("Invalid --size ") \o Show(args.size)]
  ELSE IF args.only \notin {T("canonical"), T("mongo_normalized"), T("mongo_optimized"),
                            T("postgres"), T("all")}
  THEN [args EXCEPT !.threw = T("Invalid --only ") \o Show(args.only)]
  ELSE IF ~args.seed.finite
  THEN [args EXCEPT !.threw = T("Invalid --seed ") \o ShowNumber(args.seed)]
  ELSE args

\* parseArgs(argv): the arguments; help is set when it prints the usage and
\* exits with status 0, threw holds the message of the error it throws
parseArgs(argv) == Validated(ParseLoop(argv, 2, defaultArgs))

(***************************************************************************)
(* The manifest                                                            *)
(***************************************************************************)
DATASET_VERSION == T("1.1.0")

\* the keys of a preset, in the order of its object literal
PresetKeys ==
  <<"accounts", "subsPerAccountMin", "subsPerAccountMax", "ordersPerAccountMin",
    "ordersPerAccountMax", "itemsPerOrderMin", "itemsPerOrderMax", "ticketsPerSubscriberMin",
    "ticketsPerSubscriberMax", "deviceEventsPerDeviceMin", "deviceEventsPerDeviceMax",
    "usageRecordsPerSubscriber", "days", "embedFeatureCodes">>

\* counts[name] = (canonical[name] || []).length, for each name of entityOrder
\* countsOf with the count of the accounts under every name
countsOfAccounts(canonical) == [name \in Range(entityOrder) |-> Len(canonical.accounts)]

countsOf(canonical) ==
  [name \in Range(entityOrder) |-> IF name \in DOMAIN canonical THEN Len(canonical[name]) ELSE 0]

\* the manifest object generateAll builds at the instant now
manifestOf(args, cfg, canonical, now) ==
  [datasetVersion |-> DATASET_VERSION,
   generatedAt |-> toISOString(now),
   seed |-> args.seed,
   size |-> args.size,
   presets |-> cfg,
   equivalenceRules |->
     [idStrategy |-> T("integers"),
      canonicalIsTruth |-> TRUE,
      mongoNormalizedMirrorsCanonical |-> TRUE,
      mongoOptimizedEmbeds |->
        [subscribers |-> IF cfg.embedFeatureCodes THEN <<T("profile"), T("featureCodes")>>
                         ELSE <<T("profile")>>,
         orders |-> <<T("items")>>],
      usageUnits |-> T("voice=seconds, sms=messages, data=KB"),
      postgresCsv |->
        [format |-> T("CSV header, Postgres COPY-compatible"),
         jsonbColumns |-> <<T("subscriber_profiles.preferences"), T("device_events.payload")>>]],
   counts |-> countsOf(canonical)]

Indent(n) == [k \in 1..n |-> " "]

Bool(b) == IF b THEN T("true") ELSE T("false")

\* the lines of JSON.stringify(value, null, 2) for a member holding a text, a
\* list of texts, or an object whose lines are given; more tells whether a
\* comma follows
Member(n, key, valueText, more) ==
  <<Indent(n) \o <<"\"", key, "\"", ":", " ">> \o valueText \o (IF more THEN <<",">> ELSE <<>>)>>

ListMember(n, key, items, more) ==
  <<Indent(n) \o <<"\"", key, "\"", ":", " ", "[">>>>
  \o [k \in DOMAIN items |->
        Indent(n + 2) \o JsonText(items[k]) \o (IF k < Len(items) THEN <<",">> ELSE <<>>)]
  \o <<Indent(n) \o <<"]">> \o (IF more THEN <<",">> ELSE <<>>)>>

ObjectMember(n, key, lines, more) ==
  <<Indent(n) \o <<"\"", key, "\"", ":", " ", "{">>>>
  \o lines
  \o <<Indent(n) \o <<"}">> \o (IF more THEN <<",">> ELSE <<>>)>>

\* JSON.stringify(manifest, null, 2) + '\n'
ManifestText(m) ==
  LET presetLines ==
        [k \in DOMAIN PresetKeys |->
           Member(4, PresetKeys[k],
                  IF PresetKeys[k] = "embedFeatureCodes" THEN Bool(m.presets[PresetKeys[k]])
                  ELSE String(m.presets[PresetKeys[k]]),
                  k < Len(PresetKeys))[1]]
      countLines ==
        [k \in DOMAIN entityOrder |->
           Member(4, entityOrder[k], String(m.counts[entityOrder[k]]), k < Len(entityOrder))[1]]
      e == m.equivalenceRules
      embedLines == ListMember(6, "subscribers", e.mongoOptimizedEmbeds.subscribers, TRUE)
                    \o ListMember(6, "orders", e.mongoOptimizedEmbeds.orders, FALSE)
      csvLines == Member(6, "format", JsonText(e.postgresCsv.format), TRUE)
                  \o ListMember(6, "jsonbColumns", e.postgresCsv.jsonbColumns, FALSE)
      ruleLines == Member(4, "idStrategy", JsonText(e.idStrategy), TRUE)
                   \o Member(4, "canonicalIsTruth", Bool(e.canonicalIsTruth), TRUE)
                   \o Member(4, "mongoNormalizedMirrorsCanonical",
                             Bool(e.mongoNormalizedMirrorsCanonical), TRUE)
                   \o ObjectMember(4, "mongoOptimizedEmbeds", embedLines, TRUE)
                   \o Member(4, "usageUnits", JsonText(e.usageUnits), TRUE)
                   \o ObjectMember(4, "postgresCsv", csvLines, FALSE)
      lines == <<T("{")>>
               \o Member(2, "datasetVersion", JsonText(m.datasetVersion), TRUE)
               \o Member(2, "generatedAt", JsonText(m.generatedAt), TRUE)
               \o Member(2, "seed", ShowNumber(m.seed), TRUE)
               \o Member(2, "size", JsonText(m.size), TRUE)
               \o ObjectMember(2, "presets", presetLines, TRUE)
               \o ObjectMember(2, "equivalenceRules", ruleLines, TRUE)
               \o ObjectMember(2, "counts", countLines, FALSE)
               \o <<T("}")>>
  IN  join(lines, <<"\n">>) \o <<"\n">>

(***************************************************************************)
(* generateAll and main                                                    *)
(***************************************************************************)
\* canonical[name] || []
RowsOf(data, name) == IF name \in DOMAIN data THEN data[name] ELSE <<>>

\* one pass of for (const name of entityOrder): writeNdjson(path.join(dir,
\* `${name}.ndjson`), ...) for the name after the L.i names already written;
\* the optimized projection skips the names it does not hold
WriteEntity(L, dir, shape, data, name) ==
  [i |-> L.i + 1,
   disk |-> IF shape = "mongo_optimized" /\ name \notin DOMAIN data THEN L.disk
            ELSE writeNdjson(L.disk, pathJoin(dir, <<name, ".ndjson">>), shape, name,
                             RowsOf(data, name))]

\* the passes of that loop up to the n-th name
RECURSIVE WriteLoop(_, _, _, _, _)
WriteLoop(L, dir, shape, data, n) ==
  IF L.i >= n THEN L
  ELSE IF L.i + 1 = n THEN WriteEntity(L, dir, shape, data, entityOrder[L.i + 1])
  ELSE WriteLoop(WriteLoop(L, dir, shape, data, (L.i + n) \div 2), dir, shape, data, n)

\* ensureDir(dir); for (const name of entityOrder) writeNdjson(...)
WriteShape(disk, dir, shape, data) ==
  WriteLoop([i |-> 0, disk |-> ensureDir(disk, dir)], dir, shape, data, Len(entityOrder)).disk

\* one pass of for (const b of bundles) safeWrite(path.join(outPgData, b.filename),
\* toCsv(b.headers, b.rows), true)
WriteBundle(L, dir, b) ==
  [i |-> L.i + 1,
   disk |-> safeWrite(L.disk, pathJoin(dir, T(b.filename)),
                      Cached("toCsv", <<b.headers, b.rows>>, toCsv(b.headers, b.rows)),
                      TRUE).disk]

\* the passes of that loop up to the n-th bundle
RECURSIVE BundleLoop(_, _, _, _)
BundleLoop(L, dir, bundles, n) ==
  IF L.i >= n THEN L
  ELSE IF L.i + 1 = n THEN WriteBundle(L, dir, bundles[L.i + 1])
  ELSE BundleLoop(BundleLoop(L, dir, bundles, (L.i + n) \div 2), dir, bundles, n)

\* ensureDir(outPgData); for (const b of bundles) safeWrite(...)
WriteBundles(disk, dir, bundles) ==
  BundleLoop([i |-> 0, disk |-> ensureDir(disk, dir)], dir, bundles, Len(bundles)).disk

\* generateAll(args) is followed statement by statement on a frame W: its
\* argument, its locals, the disk, the instant of the wall clock and the
\* message of the error thrown, if any.
ManifestPath(args) == pathJoin(args.out, T("manifest.json"))

\* cfg, rng, ensureDir(args.out), and the refusal if a manifest exists
Refused(W) ==
  IF existsSync(W.disk, ManifestPath(W.args)) /\ ~W.args.overwrite
  THEN [W EXCEPT !.threw = T("Refusing to overwrite existing dataset (manifest exists): ")
                           \o join(ManifestPath(W.args), T("/")) \o T(" (use --overwrite)")]
  ELSE W

Entered(args, disk, now) ==
  Refused([args |-> args, now |-> now, disk |-> ensureDir(disk, args.out), threw |-> NULL,
           cfg |-> presets(args.size), rng |-> mulberry32(args.seed.v), canonical |-> NULL,
           mongoNormalized |-> NULL, mongoOptimized |-> NULL, bundles |-> NULL,
           manifest |-> NULL])

\* the rows with createdAt taken from the wall clock
CreatedAt(rows, now) == [k \in DOMAIN rows |-> [rows[k] EXCEPT !.createdAt = iso(now.s)]]

\* Generated with the accounts created at the instant of the run
GeneratedNow(W) ==
  [W EXCEPT !.canonical = [Cached("generateCanonical", <<W.rng, W.cfg>>,
                                  generateCanonical(W.rng, W.cfg))
                             EXCEPT !.accounts = CreatedAt(@, W.now)]]

\* const canonical = generateCanonical(rng, cfg)
Generated(W) ==
  [W EXCEPT !.canonical = Cached("generateCanonical", <<W.rng, W.cfg>>,
                                 generateCanonical(W.rng, W.cfg))]

\* const mongoNormalized = toMongoNormalized(canonical)
Projected(W) == [W EXCEPT !.mongoNormalized = toMongoNormalized(W.canonical)]

\* toMongoOptimized embedding into the subscriber and order documents of
\* mongoNormalized themselves, instead of into copies of them
EmbeddedInPlace(W) ==
  [W EXCEPT !.mongoOptimized = toMongoOptimized(W.canonical, W.mongoNormalized, W.cfg),
            !.mongoNormalized =
               [@ EXCEPT !.subscribers = [k \in DOMAIN @ |->
                                            optimizedSubscriber(W.canonical, W.cfg, @[k])],
                         !.orders = [k \in DOMAIN @ |->
                                       optimizedOrder(W.mongoNormalized, @[k])]]]

\* const mongoOptimized = toMongoOptimized(canonical, mongoNormalized, cfg)
Embedded(W) ==
  [W EXCEPT !.mongoOptimized = toMongoOptimized(W.canonical, W.mongoNormalized, W.cfg)]

Selected(W, shape) == W.args.only = T(shape) \/ W.args.only = T("all")

\* the data of a shape
Data(W, shape) ==
  CASE shape = "canonical" -> W.canonical
    [] shape = "mongo_normalized" -> W.mongoNormalized
    [] shape = "mongo_optimized" -> W.mongoOptimized

\* if (args.only === shape || args.only === 'all') { ensureDir; for ... writeNdjson }
ShapeWritten(W, shape) ==
  IF Selected(W, shape)
  THEN [W EXCEPT !.disk = WriteShape(@, pathJoin(W.args.out, T(shape)), shape, Data(W, shape))]
  ELSE W

\* if (args.only === 'postgres' || args.only === 'all') { ... }
Bundled(W) ==
  [W EXCEPT !.disk = WriteBundles(@, pathJoin(pathJoin(W.args.out, T("postgres")), T("data")),
                                  W.bundles)]

PostgresWritten(W) ==
  IF Selected(W, "postgres")
  THEN Bundled([W EXCEPT !.bundles = toPostgresCsvBundles(W.canonical)])
  ELSE W

\* the manifest, and safeWrite(manifestPath, JSON.stringify(manifest, null, 2) + '\n', true)
After(W, written) == [W EXCEPT !.disk = written.disk, !.threw = written.threw]

Saved(W) ==
  After(W, safeWrite(W.disk, ManifestPath(W.args), ManifestText(W.manifest), TRUE))

Manifested(W) == Saved([W EXCEPT !.manifest = manifestOf(W.args, W.cfg, W.canonical, W.now)])

\* Completed with the manifest written before the files of the shapes
CompletedManifestFirst(W) ==
  IF ~IsNull(W.threw) THEN W
  ELSE PostgresWritten(ShapeWritten(ShapeWritten(ShapeWritten(
         Manifested(Embedded(Projected(Generated(W)))), "canonical"), "mongo_normalized"),
         "mongo_optimized"))

Completed(W) ==
  IF ~IsNull(W.threw) THEN W
  ELSE Manifested(PostgresWritten(ShapeWritten(ShapeWritten(ShapeWritten(
         Embedded(Projected(Generated(W))), "canonical"), "mongo_normalized"),
         "mongo_optimized")))

\* generateAll(args) on a disk at the instant now: the frame at its return,
\* or at the error it throws
generateAll(args, disk, now) == Completed(Entered(args, disk, now))

(***************************************************************************)
(* Runs of the command                                                     *)
(***************************************************************************)
\* the seeds and the shape selectors the command is run with
Seeds == {42, 7}

Onlys == {"canonical", "mongo_normalized", "mongo_optimized", "postgres", "all"}

\* the runs against one destination
MaxRuns == 2

\* the iterations of the generator's loops that are followed one by one
MaxSteps == 640

\* the wall clock at the first run, 2026-11-02T10:10:35.123Z, and the
\* milliseconds from one run to the next
StartSeconds == 1793614235

StartMillis == 123

RunMillis == 1500

Later(now) ==
  [s |-> now.s + (now.ms + RunMillis) \div 1000, ms |-> (now.ms + RunMillis) % 1000]

command == <<T("node"), T("tools/generate-dataset.js")>>

Argv(size, seed, only, overwrite) ==
  command \o <<T("--size"), size, T("--seed"), seed, T("--only"), only>>
  \o (IF overwrite THEN <<T("--overwrite")>> ELSE <<>>)

\* the command lines: every seed, shape selector and overwrite flag for size
\* S, and one command line for each way the arguments can be rejected
Argvs ==
  {Argv(T("S"), String(seed), T(only), overwrite) :
     seed \in Seeds, only \in Onlys, overwrite \in BOOLEAN}
  \cup {command,
        command \o <<T("--help")>>,
        command \o <<T("--fast")>>,
        command \o <<T("--overwrite"), T("--seed")>>,
        Argv(T("XL"), String(42), T("all"), TRUE),
        Argv(T("S"), T("abc"), T("all"), TRUE),
        Argv(T("S"), <<>>, T("postgres"), TRUE),
        Argv(T("S"), String(42), T("mongo"), TRUE)}

idle ==
  [pc |-> "idle", argv |-> <<>>, args |-> NULL, exit |-> NULL, stdout |-> <<>>, stderr |-> <<>>,
   writes |-> <<>>, manifest |-> NULL, canonical |-> NULL, mongoNormalized |-> NULL,
   mongoOptimized |-> NULL, bundles |-> NULL]

usage ==
  T("Usage:") \o <<"\n">>
  \o T("  node tools/generate-dataset.js --size S|M|L --seed 42 --out seed --only all --overwrite")
  \o <<"\n", "\n">> \o T("--only values:") \o <<"\n">>
  \o T("  canonical | mongo_normalized | mongo_optimized | postgres | all") \o <<"\n", "\n">>

\* the line main prints on success
okLine(args, manifest) ==
  T("{") \o <<"\"", "ok", "\"", ":">> \o T("true") \o <<",", "\"", "out", "\"", ":">>
  \o JsonText(join(args.out, T("/"))) \o <<",", "\"", "manifest", "\"", ":">>
  \o JsonText(T("manifest.json")) \o <<",", "\"", "datasetVersion", "\"", ":">>
  \o JsonText(manifest.datasetVersion) \o T("}") \o <<"\n">>

\* the run that ended with an exit status and what it printed
Exited(argv, args, exit, stdout, stderr) ==
  [idle EXCEPT !.pc = "exited", !.argv = argv, !.args = args, !.exit = exit,
               !.stdout = stdout, !.stderr = stderr]

\* console.error(`ERROR: ${err.message}`)
Failure(message) == T("ERROR: ") \o message \o <<"\n">>

\* main after generateAll returned or threw, W being its frame
Finished(argv, args, W) ==
  /\ dest' = [dirs |-> W.disk.dirs, files |-> W.disk.files]
  /\ run' = IF ~IsNull(W.threw)
            THEN [Exited(argv, args, 1, <<>>, Failure(W.threw)) EXCEPT !.writes = W.disk.writes]
            ELSE [Exited(argv, args, 0, okLine(args, W.manifest), <<>>)
                    EXCEPT !.writes = W.disk.writes,
                           !.manifest = W.manifest,
                           !.canonical = W.canonical,
                           !.mongoNormalized = W.mongoNormalized,
                           !.mongoOptimized = W.mongoOptimized,
                           !.bundles = W.bundles]

\* main after parseArgs returned args
Parsed(argv, args) ==
  IF args.help
  THEN /\ run' = Exited(argv, args, 0, usage, <<>>)
       /\ dest' = dest
  ELSE IF ~IsNull(args.threw)
  THEN /\ run' = Exited(argv, args, 1, <<>>, Failure(args.threw))
       /\ dest' = dest
  ELSE Finished(argv, args,
                generateAll(args, [dirs |-> dest.dirs, files |-> dest.files, writes |-> <<>>],
                            clock))

\* main: one run of the command, from the parsing of argv to the exit
main(argv) ==
  /\ runs < MaxRuns
  /\ runs' = runs + 1
  /\ clock' = Later(clock)
  /\ UNCHANGED <<gen, steps, memo, call, load, rngs>>
  /\ Parsed(argv, parseArgs(argv))

\* the seeds the command lines of Argvs come to: Number("") is 0
RunSeeds == Seeds \cup {0}

\* what memo holds for the runs of size S with the seeds of RunSeeds: the
\* dataset of each seed, and the text of every file written from it
Memoed(rng, cfg) ==
  Embedded(Projected([rng |-> rng, cfg |-> cfg, canonical |-> generateCanonical(rng, cfg),
                      mongoNormalized |-> NULL, mongoOptimized |-> NULL]))

NdjsonKeys(W) ==
  {<<shape, name, RowsOf(Data(W, shape), name)>> :
     shape \in {"canonical", "mongo_normalized", "mongo_optimized"}, name \in Range(entityOrder)}

CsvKeys(W) == {<<b.headers, b.rows>> : b \in Range(toPostgresCsvBundles(W.canonical))}

Tables(E) ==
  [generateCanonical |->
     [key \in {<<W.rng, W.cfg>> : W \in E} |->
        (CHOOSE W \in E : <<W.rng, W.cfg>> = key).canonical],
   NdjsonText |->
     [key \in UNION {NdjsonKeys(W) : W \in E} |-> NdjsonText(key[1], key[2], key[3])],
   toCsv |-> [key \in UNION {CsvKeys(W) : W \in E} |-> toCsv(key[1], key[2])]]

MemoOf(seeds, size) == Tables({Memoed(mulberry32(seed), presets(size)) : seed \in seeds})

\* no helper function has been applied
NoCall == [fn |-> "none", args |-> <<>>, pc |-> "none", returned |-> NULL]

NoLoad == [status |-> "none", pc |-> 0, dir |-> <<>>, tables |-> <<>>, loaded |-> <<>>]

NoRngs == <<>>

Start(seed, size) == Settle(GenStart(mulberry32(seed), presets(T(size))))

Init ==
  /\ gen = Start(42, "S")
  /\ steps = 0
  /\ dest = [dirs |-> {}, files |-> <<>>]
  /\ clock = [s |-> StartSeconds, ms |-> StartMillis]
  /\ run = idle
  /\ runs = 0
  /\ memo = MemoOf(RunSeeds, T("S"))
  /\ call = NoCall
  /\ load = NoLoad
  /\ rngs = NoRngs

Next == \E argv \in Argvs : main(argv)

Spec == Init /\ [][Next]_vars

(***************************************************************************)
(* The command run against a destination that is not empty                 *)
(***************************************************************************)
\* what a run that was killed between its writes and its manifest, or
\* another hand, left in the destination: a file of one shape, no manifest
Leftover(path) ==
  [dirs |-> {SubSeq(path, 1, k) : k \in 1..(Len(path) - 1)}, files |-> (path :> T("stale"))]

Leftovers ==
  {Leftover(<<T("seed"), T("canonical"), <<"accounts", ".ndjson">>>>),
   Leftover(<<T("seed"), T("postgres"), T("data"), T("accounts.csv")>>)}

InitLeft ==
  /\ gen = Start(42, "S")
  /\ steps = 0
  /\ dest \in Leftovers
  /\ clock = [s |-> StartSeconds, ms |-> StartMillis]
  /\ run = idle
  /\ runs = 0
  /\ memo = MemoOf(RunSeeds, T("S"))
  /\ call = NoCall
  /\ load = NoLoad
  /\ rngs = NoRngs

SpecLeft == InitLeft /\ [][Next]_vars

(***************************************************************************)
(* The command run on a disk whose writes can fail                         *)
(***************************************************************************)
\* the most writes of a run that succeed before one fails
MaxWrites == 80

\* the disk a run leaves when fs.writeFileSync throws at its (k + 1)-th
\* write: the directories made and the files written until then, after
\* being the disk of the run had it completed
Cut(disk, after, k) ==
  LET written == {after.writes[j] : j \in 1..k}
      reached == written \cup {after.writes[k + 1]}
  IN  [dirs |-> disk.dirs \cup UNION {{SubSeq(p, 1, n) : n \in 1..(Len(p) - 1)} : p \in reached},
       files |-> [p \in DOMAIN disk.files \cup written |->
                    IF p \in written THEN after.files[p] ELSE disk.files[p]]]

\* main after generateAll, W being its frame had no write failed: the catch
\* of main takes the error of the write that failed, if one did
Written(argv, args, W, k) ==
  IF IsNull(W.threw) /\ k < Len(W.disk.writes)
  THEN /\ dest' = Cut(dest, W.disk, k)
       /\ run' = [Exited(argv, args, 1, <<>>, Failure(T("EIO: i/o error, write")))
                    EXCEPT !.writes = SubSeq(W.disk.writes, 1, k)]
  ELSE Finished(argv, args, W)

ParsedWriting(argv, args, k) ==
  IF args.help
  THEN /\ run' = Exited(argv, args, 0, usage, <<>>)
       /\ dest' = dest
  ELSE IF ~IsNull(args.threw)
  THEN /\ run' = Exited(argv, args, 1, <<>>, Failure(args.threw))
       /\ dest' = dest
  ELSE Written(argv, args,
               generateAll(args, [dirs |-> dest.dirs, files |-> dest.files, writes |-> <<>>],
                           clock),
               k)

\* main: one run of the command in which the writes after the k-th fail
mainWriting(argv, k) ==
  /\ runs = 0
  /\ runs' = runs + 1
  /\ clock' = Later(clock)
  /\ UNCHANGED <<gen, steps, memo, call, load, rngs>>
  /\ ParsedWriting(argv, parseArgs(argv), k)

InitIo ==
  /\ gen = Start(42, "S")
  /\ steps = 0
  /\ dest \in {[dirs |-> {}, files |-> <<>>], Leftover(<<T("seed"), T("manifest.json")>>)}
  /\ clock = [s |-> StartSeconds, ms |-> StartMillis]
  /\ run = idle
  /\ runs = 0
  /\ memo = MemoOf(RunSeeds, T("S"))
  /\ call = NoCall
  /\ load = NoLoad
  /\ rngs = NoRngs

NextIo == \E argv \in Argvs, k \in 0..MaxWrites : mainWriting(argv, k)

SpecIo == InitIo /\ [][NextIo]_vars

(***************************************************************************)
(* generateCanonical followed one iteration at a time, for every size      *)
(***************************************************************************)
GenSeeds == {1, 6, 7, 42}

GenCases == {<<seed, "S">> : seed \in GenSeeds} \cup {<<42, "M">>, <<42, "L">>}

\* one pass of the loop gen is in, and the statements up to the next loop
GenAccount ==
  /\ gen.pc = "accounts"
  /\ steps < MaxSteps
  /\ gen' = Settle(AccountStep(gen))
  /\ steps' = steps + 1
  /\ UNCHANGED <<dest, clock, run, runs, memo, call, load, rngs>>

GenSubscribers ==
  /\ gen.pc = "subscribers"
  /\ steps < MaxSteps
  /\ gen' = Settle(SubscribersStep(gen))
  /\ steps' = steps + 1
  /\ UNCHANGED <<dest, clock, run, runs, memo, call, load, rngs>>

GenDevice ==
  /\ gen.pc = "devices"
  /\ steps < MaxSteps
  /\ gen' = Settle(DeviceStep(gen))
  /\ steps' = steps + 1
  /\ UNCHANGED <<dest, clock, run, runs, memo, call, load, rngs>>

GenOrders ==
  /\ gen.pc = "orders"
  /\ steps < MaxSteps
  /\ gen' = Settle(OrdersStep(gen))
  /\ steps' = steps + 1
  /\ UNCHANGED <<dest, clock, run, runs, memo, call, load, rngs>>

GenFeatures ==
  /\ gen.pc = "features"
  /\ steps < MaxSteps
  /\ gen' = Settle(FeaturesStep(gen))
  /\ steps' = steps + 1
  /\ UNCHANGED <<dest, clock, run, runs, memo, call, load, rngs>>

GenFeatureState ==
  /\ gen.pc = "feature_state"
  /\ steps < MaxSteps
  /\ gen' = Settle(FeatureStateStep(gen))
  /\ steps' = steps + 1
  /\ UNCHANGED <<dest, clock, run, runs, memo, call, load, rngs>>

GenTickets ==
  /\ gen.pc = "tickets"
  /\ steps < MaxSteps
  /\ gen' = Settle(TicketsStep(gen))
  /\ steps' = steps + 1
  /\ UNCHANGED <<dest, clock, run, runs, memo, call, load, rngs>>

GenNotes ==
  /\ gen.pc = "notes"
  /\ steps < MaxSteps
  /\ gen' = Settle(NotesStep(gen))
  /\ steps' = steps + 1
  /\ UNCHANGED <<dest, clock, run, runs, memo, call, load, rngs>>

GenDeviceEvents ==
  /\ gen.pc = "device_events"
  /\ steps < MaxSteps
  /\ gen' = Settle(DeviceEventsStep(gen))
  /\ steps' = steps + 1
  /\ UNCHANGED <<dest, clock, run, runs, memo, call, load, rngs>>

GenUsageRecords ==
  /\ gen.pc = "usage_records"
  /\ steps < MaxSteps
  /\ gen' = Settle(UsageStep(gen))
  /\ steps' = steps + 1
  /\ UNCHANGED <<dest, clock, run, runs, memo, call, load, rngs>>

GenReturn ==
  /\ gen.pc = "return"
  /\ steps < MaxSteps
  /\ gen' = Settle(ReturnStep(gen))
  /\ steps' = steps + 1
  /\ UNCHANGED <<dest, clock, run, runs, memo, call, load, rngs>>

InitGen ==
  /\ \E c \in GenCases : gen = Start(c[1], c[2])
  /\ steps = 0
  /\ dest = [dirs |-> {}, files |-> <<>>]
  /\ clock = [s |-> StartSeconds, ms |-> StartMillis]
  /\ run = idle
  /\ runs = 0
  /\ memo = <<>>
  /\ call = NoCall
  /\ load = NoLoad
  /\ rngs = NoRngs

NextGen ==
  \/ GenAccount
  \/ GenSubscribers
  \/ GenDevice
  \/ GenOrders
  \/ GenFeatures
  \/ GenFeatureState
  \/ GenTickets
  \/ GenNotes
  \/ GenDeviceEvents
  \/ GenUsageRecords
  \/ GenReturn

SpecGen == InitGen /\ [][NextGen]_vars

(***************************************************************************)
(* The helper functions applied on their own, to arguments drawn from      *)
(* small sets                                                              *)
(***************************************************************************)
\* the characters of the values csvEscape is applied to: a letter, the
\* comma, the double quote, LF and CR
CsvChars == {"a", ",", "\"", "\n", "\r"}

\* the length of the longest of these values
MaxLen == 4

CsvTexts == UNION {[1..n -> CsvChars] : n \in 0..MaxLen}

CsvNumbers == {0, 7, 1001, 0 - 200}

\* the applications followed: csvEscape(val) for a string, a number, null
\* or undefined
CsvCalls ==
  {[fn |-> "csvEscape", args |-> arg, pc |-> "called", returned |-> NULL] :
     arg \in ({"string"} \X (CsvTexts \cup {NULL})) \cup ({"number"} \X CsvNumbers)}

ReturnCsvEscape ==
  /\ call.fn = "csvEscape"
  /\ call.pc = "called"
  /\ call' = [call EXCEPT !.pc = "returned", !.returned = csvEscape(call.args[1], call.args[2])]
  /\ UNCHANGED <<gen, steps, dest, clock, run, runs, memo, load, rngs>>

\* the applications followed: presets(size) for the three sizes and for
\* other values
PresetSizes == {T("S"), T("M"), T("L"), T("XL"), T("s"), <<>>}

PresetCalls ==
  {[fn |-> "presets", args |-> <<size>>, pc |-> "called", returned |-> NULL] :
     size \in PresetSizes}

\* presets has no throw statement: every application of it returns
ReturnPresets ==
  /\ call.fn = "presets"
  /\ call.pc = "called"
  /\ call' = [call EXCEPT !.pc = "returned", !.returned = presets(call.args[1])]
  /\ UNCHANGED <<gen, steps, dest, clock, run, runs, memo, load, rngs>>

\* the applications followed: shuffle(rng, arr) for a generator of each of
\* the seeds 0 to MaxSeed, not drawn from yet, and arrays of up to four
\* items, one of them with an item twice
MaxSeed == 149

ShuffleArrays ==
  {<<>>, <<"a">>, <<"a", "b">>, <<"a", "b", "a">>, <<"a", "b", "c">>, <<"a", "b", "c", "d">>}

ShuffleCalls ==
  {[fn |-> "shuffle", args |-> <<mulberry32(seed), arr>>, pc |-> "called", returned |-> NULL] :
     seed \in 0..MaxSeed, arr \in ShuffleArrays}

\* shuffle returning: the array it returns and the generator after its draws
ReturnShuffle ==
  /\ call.fn = "shuffle"
  /\ call.pc = "called"
  /\ call' = [call EXCEPT !.pc = "returned", !.returned = shuffle(call.args[1], call.args[2])]
  /\ UNCHANGED <<gen, steps, dest, clock, run, runs, memo, load, rngs>>

\* the applications followed: generateCanonical(rng, cfg) for a generator
\* not drawn from yet and the preset S, as it is and with other counts of
\* orders, items, tickets, device events and usage records, of subscribers,
\* and of days
CfgVariants ==
  {presets(T("S")),
   [presets(T("S")) EXCEPT !.ordersPerAccountMin = 2, !.ordersPerAccountMax = 3,
                           !.itemsPerOrderMin = 1, !.itemsPerOrderMax = 4],
   [presets(T("S")) EXCEPT !.ticketsPerSubscriberMin = 1, !.ticketsPerSubscriberMax = 2,
                           !.deviceEventsPerDeviceMin = 1, !.deviceEventsPerDeviceMax = 2,
                           !.usageRecordsPerSubscriber = 3],
   [presets(T("S")) EXCEPT !.subsPerAccountMax = 3],
   [presets(T("S")) EXCEPT !.days = 3]}

GenerateCalls ==
  {[fn |-> "generateCanonical", args |-> <<mulberry32(seed), cfg>>, pc |-> "called",
    returned |-> NULL] : seed \in {42, 7}, cfg \in CfgVariants}

ReturnGenerateCanonical ==
  /\ call.fn = "generateCanonical"
  /\ call.pc = "called"
  /\ call' = [call EXCEPT !.pc = "returned",
                          !.returned = generateCanonical(call.args[1], call.args[2])]
  /\ UNCHANGED <<gen, steps, dest, clock, run, runs, memo, load, rngs>>

InitCall ==
  /\ gen = Start(42, "S")
  /\ steps = 0
  /\ dest = [dirs |-> {}, files |-> <<>>]
  /\ clock = [s |-> StartSeconds, ms |-> StartMillis]
  /\ run = idle
  /\ runs = 0
  /\ memo = <<>>
  /\ call \in CsvCalls \cup PresetCalls \cup ShuffleCalls \cup GenerateCalls
  /\ load = NoLoad
  /\ rngs = NoRngs

NextCall ==
  \/ ReturnCsvEscape
  \/ ReturnPresets
  \/ ReturnShuffle
  \/ ReturnGenerateCanonical

SpecCall == InitCall /\ [][NextCall]_vars

(***************************************************************************)
(* load.sql run by psql against the CSV files of a generated dataset       *)
(***************************************************************************)
\* the \set lines: the psql variable of every CSV file
CsvVariables ==
  [accounts_csv |-> "accounts.csv", subscribers_csv |-> "subscribers.csv",
   subscriber_profiles_csv |-> "subscriber_profiles.csv", devices_csv |-> "devices.csv",
   device_events_csv |-> "device_events.csv", orders_csv |-> "orders.csv",
   order_items_csv |-> "order_items.csv", features_csv |-> "features.csv",
   subscriber_features_csv |-> "subscriber_features.csv",
   subscriber_feature_state_csv |-> "subscriber_feature_state.csv",
   ticket_status_codes_csv |-> "ticket_status_codes.csv", tickets_csv |-> "tickets.csv",
   notes_csv |-> "notes.csv", org_units_csv |-> "org_units.csv", plans_csv |-> "plans.csv",
   regions_csv |-> "regions.csv", device_classes_csv |-> "device_classes.csv",
   rates_csv |-> "rates.csv", usage_records_csv |-> "usage_records.csv"]

\* the COPY statements of load.sql with the order of tickets and their
\* status codes exchanged
CopyStatementsTicketsFirst ==
  <<[table |-> "tickets", from |-> "tickets_csv"],
    [table |-> "plans", from |-> "plans_csv"],
    [table |-> "regions", from |-> "regions_csv"],
    [table |-> "device_classes", from |-> "device_classes_csv"],
    [table |-> "features", from |-> "features_csv"],
    [table |-> "org_units", from |-> "org_units_csv"],
    [table |-> "accounts", from |-> "accounts_csv"],
    [table |-> "subscribers", from |-> "subscribers_csv"],
    [table |-> "subscriber_profiles", from |-> "subscriber_profiles_csv"],
    [table |-> "devices", from |-> "devices_csv"],
    [table |-> "orders", from |-> "orders_csv"],
    [table |-> "order_items", from |-> "order_items_csv"],
    [table |-> "subscriber_features", from |-> "subscriber_features_csv"],
    [table |-> "subscriber_feature_state", from |-> "subscriber_feature_state_csv"],
    [table |-> "ticket_status_codes", from |-> "ticket_status_codes_csv"],
    [table |-> "notes", from |-> "notes_csv"],
    [table |-> "rates", from |-> "rates_csv"],
    [table |-> "device_events", from |-> "device_events_csv"],
    [table |-> "usage_records", from |-> "usage_records_csv"]>>

\* the COPY statements of load.sql, in its order: COPY table (...) FROM :'from'
CopyStatements ==
  <<[table |-> "ticket_status_codes", from |-> "ticket_status_codes_csv"],
    [table |-> "plans", from |-> "plans_csv"],
    [table |-> "regions", from |-> "regions_csv"],
    [table |-> "device_classes", from |-> "device_classes_csv"],
    [table |-> "features", from |-> "features_csv"],
    [table |-> "org_units", from |-> "org_units_csv"],
    [table |-> "accounts", from |-> "accounts_csv"],
    [table |-> "subscribers", from |-> "subscribers_csv"],
    [table |-> "subscriber_profiles", from |-> "subscriber_profiles_csv"],
    [table |-> "devices", from |-> "devices_csv"],
    [table |-> "orders", from |-> "orders_csv"],
    [table |-> "order_items", from |-> "order_items_csv"],
    [table |-> "subscriber_features", from |-> "subscriber_features_csv"],
    [table |-> "subscriber_feature_state", from |-> "subscriber_feature_state_csv"],
    [table |-> "tickets", from |-> "tickets_csv"],
    [table |-> "notes", from |-> "notes_csv"],
    [table |-> "rates", from |-> "rates_csv"],
    [table |-> "device_events", from |-> "device_events_csv"],
    [table |-> "usage_records", from |-> "usage_records_csv"]>>

\* the REFERENCES clauses of tables.sql: column REFERENCES table(key)
Ref(column, table, key) == [column |-> column, table |-> table, key |-> key]

References ==
  [accounts |-> {},
   subscribers |-> {Ref("account_id", "accounts", "account_id")},
   subscriber_profiles |-> {Ref("subscriber_id", "subscribers", "subscriber_id")},
   devices |-> {Ref("subscriber_id", "subscribers", "subscriber_id")},
   device_events |-> {Ref("device_id", "devices", "device_id")},
   orders |-> {Ref("account_id", "accounts", "account_id")},
   order_items |-> {Ref("order_id", "orders", "order_id")},
   features |-> {},
   subscriber_features |-> {Ref("subscriber_id", "subscribers", "subscriber_id"),
                            Ref("feature_id", "features", "feature_id")},
   subscriber_feature_state |-> {Ref("subscriber_id", "subscribers", "subscriber_id"),
                                 Ref("feature_id", "features", "feature_id")},
   ticket_status_codes |-> {},
   tickets |-> {Ref("subscriber_id", "subscribers", "subscriber_id"),
                Ref("status_code", "ticket_status_codes", "code")},
   notes |-> {},
   org_units |-> {Ref("parent_org_unit_id", "org_units", "org_unit_id")},
   plans |-> {},
   regions |-> {},
   device_classes |-> {},
   rates |-> {Ref("plan_id", "plans", "plan_id"), Ref("region_id", "regions", "region_id"),
              Ref("device_class_id", "device_classes", "device_class_id")},
   usage_records |-> {Ref("subscriber_id", "subscribers", "subscriber_id")}]

\* ON_ERROR_STOP: psql stops at the statement that failed, and the
\* transaction it leaves open is rolled back
Stopped(L) == [L EXCEPT !.status = "failed", !.tables = [t \in DOMAIN @ |-> <<>>]]

\* the foreign keys of the rows of a table hold: each is null or a key of
\* the table it references, as the tables stand after the statement
ReferencesHold(tables, table) ==
  \A ref \in References[table], k \in DOMAIN tables[table] :
     \/ IsNull(tables[table][k][ref.column])
     \/ tables[table][k][ref.column] \in {tables[ref.table][j][ref.key] : j \in DOMAIN tables[ref.table]}

\* a COPY whose file was read, tables being the tables with its rows added
Copied(L, st, tables) ==
  IF ReferencesHold(tables, st.table)
  THEN [L EXCEPT !.tables = tables, !.pc = @ + 1, !.loaded = Append(@, st.table)]
  ELSE Stopped(L)

CopyFrom(L, st, file) ==
  IF file \notin DOMAIN L.dir THEN Stopped(L)
  ELSE Copied(L, st, [L.tables EXCEPT ![st.table] = @ \o L.dir[file]])

\* BEGIN; TRUNCATE TABLE ... RESTART IDENTITY CASCADE;
Truncate ==
  /\ load.status = "running"
  /\ load.pc = 0
  /\ load' = [load EXCEPT !.pc = 1, !.tables = [t \in DOMAIN References |-> <<>>]]
  /\ UNCHANGED <<gen, steps, dest, clock, run, runs, memo, call, rngs>>

\* the COPY statement the session is at
Copy ==
  /\ load.status = "running"
  /\ load.pc \in DOMAIN CopyStatements
  /\ load' = CopyFrom(load, CopyStatements[load.pc], CsvVariables[CopyStatements[load.pc].from])
  /\ UNCHANGED <<gen, steps, dest, clock, run, runs, memo, call, rngs>>

\* COMMIT;
Commit ==
  /\ load.status = "running"
  /\ load.pc = Len(CopyStatements) + 1
  /\ load' = [load EXCEPT !.status = "committed"]
  /\ UNCHANGED <<gen, steps, dest, clock, run, runs, memo, call, rngs>>

\* the data_dir of a session: the files the generator wrote for a seed,
\* all of them or all but one
LoadSeeds == {42, 7}

DirOf(bundles) == [f \in {bundles[k].filename : k \in DOMAIN bundles} |->
                    bundles[CHOOSE k \in DOMAIN bundles : bundles[k].filename = f].rows]

Without(dir, files) == [f \in DOMAIN dir \ files |-> dir[f]]

DirsOf(dir) == {dir} \cup {Without(dir, {f}) : f \in DOMAIN dir}

Dirs ==
  UNION {DirsOf(DirOf(toPostgresCsvBundles(generateCanonical(mulberry32(seed),
                                                             presets(T("S")))))) :
           seed \in LoadSeeds}

InitLoad ==
  /\ gen = Start(42, "S")
  /\ steps = 0
  /\ dest = [dirs |-> {}, files |-> <<>>]
  /\ clock = [s |-> StartSeconds, ms |-> StartMillis]
  /\ run = idle
  /\ runs = 0
  /\ memo = <<>>
  /\ call = NoCall
  /\ load \in {[NoLoad EXCEPT !.status = "running", !.dir = dir,
                               !.tables = [t \in DOMAIN References |-> <<>>]] : dir \in Dirs}
  /\ rngs = NoRngs

NextLoad ==
  \/ Truncate
  \/ Copy
  \/ Commit

SpecLoad == InitLoad /\ [][NextLoad]_vars

(***************************************************************************)
(* Two generators of mulberry32 drawn from in any order                    *)
(***************************************************************************)
RngSeeds == {42, 7, -1}

\* the draws followed of each generator
MaxDraws == 4

\* const rng = mulberry32(seed)
Instance(seed) == [seed |-> seed, g |-> mulberry32(seed), draws |-> <<>>]

\* rand() with one cursor t for all the generators, that of the first
CalledShared(I, k) ==
  [j \in DOMAIN I |->
     [I[j] EXCEPT !.g = rand(I[1].g).g,
                  !.draws = IF j = k THEN Append(@, rand(I[1].g).v) ELSE @]]

\* rng() on the k-th generator: rand() moves the cursor t of its own closure
Called(I, k) ==
  [I EXCEPT ![k] = [@ EXCEPT !.g = rand(I[k].g).g, !.draws = Append(@, rand(I[k].g).v)]]

Draw(k) ==
  /\ Len(rngs[k].draws) < MaxDraws
  /\ rngs' = Called(rngs, k)
  /\ UNCHANGED <<gen, steps, dest, clock, run, runs, memo, call, load>>

InitRngs ==
  /\ gen = Start(42, "S")
  /\ steps = 0
  /\ dest = [dirs |-> {}, files |-> <<>>]
  /\ clock = [s |-> StartSeconds, ms |-> StartMillis]
  /\ run = idle
  /\ runs = 0
  /\ memo = <<>>
  /\ call = NoCall
  /\ load = NoLoad
  /\ rngs \in {<<Instance(a), Instance(b)>> : a, b \in RngSeeds}

NextRngs == \E k \in 1..2 : Draw(k)

SpecRngs == InitRngs /\ [][NextRngs]_vars

(***************************************************************************)
(* Properties of the generated data.  They are stated of gen.d, the data   *)
(* generateCanonical has built so far, so they hold of the dataset it      *)
(* returns (gen.pc = "done") and of every stage on the way to it.          *)
(***************************************************************************)
\* the values under a key of the rows
Column(rows, key) == {rows[k][key] : k \in DOMAIN rows}

\* the pairs of values under two keys of the rows
Pairs(rows, a, b) == {<<rows[k][a], rows[k][b]>> : k \in DOMAIN rows}

\* C2: every foreign key of the generated rows resolves to an existing row:
\* the accountId of subscribers and orders in accounts; the subscriberId of
\* profiles, devices, tickets, usage records and subscriber_features in
\* subscribers; the deviceId of device events in devices; the orderId of
\* order items in orders; the featureId of subscriber_features in features;
\* the statusCode of tickets in ticket_status_codes; the planId, regionId and
\* deviceClassId of rates in their catalogs; the non-null parentOrgUnitId of
\* org units in org_units; the (subscriberId, featureId) of each
\* subscriber_feature_state row in subscriber_features.
ForeignKeysResolve ==
  /\ Column(gen.d.subscribers, "accountId") \subseteq Column(gen.d.accounts, "accountId")
  /\ Column(gen.d.orders, "accountId") \subseteq Column(gen.d.accounts, "accountId")
  /\ \A name \in {"subscriber_profiles", "devices", "tickets", "usage_records",
                  "subscriber_features"} :
       Column(gen.d[name], "subscriberId") \subseteq Column(gen.d.subscribers, "subscriberId")
  /\ Column(gen.d.device_events, "deviceId") \subseteq Column(gen.d.devices, "deviceId")
  /\ Column(gen.d.order_items, "orderId") \subseteq Column(gen.d.orders, "orderId")
  /\ Column(gen.d.subscriber_features, "featureId") \subseteq Column(gen.d.features, "featureId")
  /\ Column(gen.d.tickets, "statusCode") \subseteq Column(gen.d.ticket_status_codes, "code")
  /\ Column(gen.d.rates, "planId") \subseteq Column(gen.d.plans, "planId")
  /\ Column(gen.d.rates, "regionId") \subseteq Column(gen.d.regions, "regionId")
  /\ Column(gen.d.rates, "deviceClassId") \subseteq Column(gen.d.device_classes, "deviceClassId")
  /\ \A k \in DOMAIN gen.d.org_units :
       \/ IsNull(gen.d.org_units[k].parentOrgUnitId)
       \/ gen.d.org_units[k].parentOrgUnitId \in Column(gen.d.org_units, "orgUnitId")
  /\ Pairs(gen.d.subscriber_feature_state, "subscriberId", "featureId")
       \subseteq Pairs(gen.d.subscriber_features, "subscriberId", "featureId")

\* a dataset is returned, with rows under every foreign key
ForeignKeysReturned ==
  /\ gen.pc = "done"
  /\ \A name \in Range(entityOrder) : Len(gen.d[name]) > 0

\* the identifiers of the fifteen entity types that carry one
IdSets ==
  <<Column(gen.d.accounts, "accountId"), Column(gen.d.subscribers, "subscriberId"),
    Column(gen.d.devices, "deviceId"), Column(gen.d.orders, "orderId"),
    Column(gen.d.order_items, "orderItemId"), Column(gen.d.features, "featureId"),
    Column(gen.d.subscriber_feature_state, "subscriberFeatureStateId"),
    Column(gen.d.tickets, "ticketId"), Column(gen.d.notes, "noteId"),
    Column(gen.d.org_units, "orgUnitId"), Column(gen.d.plans, "planId"),
    Column(gen.d.regions, "regionId"), Column(gen.d.device_classes, "deviceClassId"),
    Column(gen.d.device_events, "deviceEventId"),
    Column(gen.d.usage_records, "usageRecordId")>>

Disjoint(sets) == \A a \in DOMAIN sets : \A b \in DOMAIN sets : a < b => sets[a] \cap sets[b] = {}

\* C3: the identifiers assigned to different entity types are pairwise
\* disjoint: no identifier is used by rows of two entity types.
IdsDisjoint == Disjoint(IdSets)

\* C4: the ratedCents of every usage record is 0 for sms, 4 times the
\* minutes of a voice record rounded up (the least n with 60 n >= units) and
\* 2 times the megabytes of a data record rounded up (the least n with
\* 1024 n >= units); so voice 90 gives 8, voice 45 gives 4, data 1024 gives 2.
RoundedUp(n, units, per) == n * per >= units /\ (n - 1) * per < units

RatedCentsRule ==
  /\ \A k \in DOMAIN gen.d.usage_records :
       LET r == gen.d.usage_records[k]
       IN  CASE r.usageType = T("voice") ->
                  r.ratedCents % 4 = 0 /\ RoundedUp(r.ratedCents \div 4, r.units, 60)
             [] r.usageType = T("data") ->
                  r.ratedCents % 2 = 0 /\ RoundedUp(r.ratedCents \div 2, r.units, 1024)
             [] r.usageType = T("sms") -> r.ratedCents = 0
  /\ ratedCents(T("voice"), 90) = 8
  /\ ratedCents(T("voice"), 45) = 4
  /\ ratedCents(T("data"), 1024) = 2
  /\ \A units \in 1..5 : ratedCents(T("sms"), units) = 0

\* usage records of the three types are generated, with a voice record that
\* does not fill its last minute and a data record of more than a megabyte
RatedCentsReturned ==
  /\ gen.pc = "done"
  /\ \A type \in Range(usageTypes) : type \in Column(gen.d.usage_records, "usageType")
  /\ \E k \in DOMAIN gen.d.usage_records :
       /\ gen.d.usage_records[k].usageType = T("voice")
       /\ gen.d.usage_records[k].units % 60 # 0
  /\ \E k \in DOMAIN gen.d.usage_records :
       /\ gen.d.usage_records[k].usageType = T("data")
       /\ gen.d.usage_records[k].units > 1024
       /\ gen.d.usage_records[k].units % 1024 # 0

\* the primary key of each entity that has one of a single column
PrimaryKey ==
  [accounts |-> "accountId", subscribers |-> "subscriberId",
   subscriber_profiles |-> "subscriberId", devices |-> "deviceId",
   device_events |-> "deviceEventId", orders |-> "orderId", order_items |-> "orderItemId",
   features |-> "featureId", subscriber_feature_state |-> "subscriberFeatureStateId",
   ticket_status_codes |-> "code", tickets |-> "ticketId", notes |-> "noteId",
   org_units |-> "orgUnitId", plans |-> "planId", regions |-> "regionId",
   device_classes |-> "deviceClassId", usage_records |-> "usageRecordId"]

\* no two rows have the same value under the key
Unique(rows, key) == Cardinality(Column(rows, key)) = Len(rows)

\* C5: the generated rows satisfy every PRIMARY KEY and UNIQUE constraint:
\* primary keys are distinct within each entity, no two subscriber_features
\* rows share (subscriberId, featureId), no two rates share (planId,
\* regionId, deviceClassId), and accountNumber, msisdn and imei are distinct.
KeysUnique ==
  /\ \A name \in DOMAIN PrimaryKey : Unique(gen.d[name], PrimaryKey[name])
  /\ Cardinality(Pairs(gen.d.subscriber_features, "subscriberId", "featureId"))
       = Len(gen.d.subscriber_features)
  /\ Cardinality({<<r.planId, r.regionId, r.deviceClassId>> : r \in Range(gen.d.rates)})
       = Len(gen.d.rates)
  /\ Unique(gen.d.accounts, "accountNumber")
  /\ Unique(gen.d.subscribers, "msisdn")
  /\ Unique(gen.d.devices, "imei")
  /\ Unique(gen.d.features, "code")
  /\ Unique(gen.d.plans, "code")
  /\ Unique(gen.d.regions, "code")
  /\ Unique(gen.d.device_classes, "code")

\* a dataset is returned, with a subscriber that holds two features
KeysReturned ==
  /\ gen.pc = "done"
  /\ \E k \in DOMAIN gen.d.subscriber_features :
       k > 1 /\ gen.d.subscriber_features[k].subscriberId
                  = gen.d.subscriber_features[k - 1].subscriberId

(***************************************************************************)
(* Properties of a run of the command.  They are stated of run, the last   *)
(* run, which holds what generateAll built, and of dest, the files.        *)
(***************************************************************************)
\* the last run generated a dataset and exited with status 0
Succeeded == run.pc = "exited" /\ run.exit = 0 /\ ~run.args.help

\* the data of two runs are the same, the manifests but for generatedAt
SameData(a, b) ==
  /\ a.canonical = b.canonical
  /\ a.mongoNormalized = b.mongoNormalized
  /\ a.mongoOptimized = b.mongoOptimized
  /\ (IsNull(a.bundles) \/ IsNull(b.bundles) \/ a.bundles = b.bundles)
  /\ [a.manifest EXCEPT !.generatedAt = b.manifest.generatedAt] = b.manifest

\* the files both runs wrote, the manifest apart
WrittenByBoth(a, b) == (Range(a.writes) \cap Range(b.writes)) \ {ManifestPath(a.args)}

FileOf(shape, name) == <<T("seed"), T(shape), <<name, ".ndjson">>>>

NormalizedId(canonical, name, k) ==
  IF name = "subscriber_features" THEN k
  ELSE IF name = "rates" THEN Len(canonical.subscriber_features) + k
  ELSE canonical[name][k][PrimaryKey[name]]

\* C6: toMongoNormalized yields, for each of the 19 entities, one document
\* per canonical row in the same order, with every canonical field unchanged
\* plus _id: the primary key of the row, the code of a ticket status code,
\* and for subscriber_features and rates the numbers of one counter from 1
\* (subscriber_features 1..n, rates n+1..n+8).
NormalizedMirrors ==
  Succeeded =>
    /\ DOMAIN run.mongoNormalized = Range(entityOrder)
    /\ Cardinality(Range(entityOrder)) = 19
    /\ Len(run.mongoNormalized.rates) = 8
    /\ \A name \in Range(entityOrder) :
         /\ Len(run.mongoNormalized[name]) = Len(run.canonical[name])
         /\ \A k \in DOMAIN run.canonical[name] :
              /\ DOMAIN run.mongoNormalized[name][k] = DOMAIN run.canonical[name][k] \cup {"_id"}
              /\ \A f \in DOMAIN run.canonical[name][k] :
                   run.mongoNormalized[name][k][f] = run.canonical[name][k][f]
              /\ run.mongoNormalized[name][k]._id = NormalizedId(run.canonical, name, k)

\* a dataset with bridge rows and rates is projected
NormalizedProjected ==
  /\ Succeeded
  /\ Len(run.mongoNormalized.subscriber_features) > 1
  /\ Len(run.mongoNormalized.rates) > 1
  /\ Len(run.mongoNormalized.tickets) > 0

\* the number of rows with a value under a key
Occurrences(rows, key, v) == Cardinality({k \in DOMAIN rows : rows[k][key] = v})

\* the codes of the features linked to a subscriber in subscriber_features
LinkedCodes(canonical, subscriberId) ==
  {f.code : f \in {g \in Range(canonical.features) :
                     <<subscriberId, g.featureId>>
                       \in Pairs(canonical.subscriber_features, "subscriberId", "featureId")}}

\* the profile of a subscriber without its subscriberId
ProfileOf(canonical, subscriberId) ==
  LET prof == CHOOSE p \in Range(canonical.subscriber_profiles) : p.subscriberId = subscriberId
  IN  [f \in DOMAIN prof \ {"subscriberId"} |-> prof[f]]

\* C7: the optimized projection has one subscriber document per canonical
\* subscriber (the same multiset of subscriberId as canonical and
\* normalized); each carries the canonical profile of the subscriber without
\* subscriberId and, embedFeatureCodes being set, featureCodes: the codes of
\* exactly the features linked to the subscriber, ascending, none twice.
OptimizedSubscribers ==
  Succeeded =>
    /\ Len(run.mongoOptimized.subscribers) = Len(run.canonical.subscribers)
    /\ \A s \in Range(run.canonical.subscribers) \cup Range(run.mongoOptimized.subscribers) :
         /\ Occurrences(run.mongoOptimized.subscribers, "subscriberId", s.subscriberId) = 1
         /\ Occurrences(run.mongoNormalized.subscribers, "subscriberId", s.subscriberId) = 1
         /\ Occurrences(run.canonical.subscribers, "subscriberId", s.subscriberId) = 1
         /\ Occurrences(run.canonical.subscriber_profiles, "subscriberId", s.subscriberId) = 1
    /\ \A k \in DOMAIN run.mongoOptimized.subscribers :
         LET s == run.mongoOptimized.subscribers[k]
         IN  /\ "profile" \in DOMAIN s
             /\ s.profile = ProfileOf(run.canonical, s.subscriberId)
             /\ run.manifest.presets.embedFeatureCodes
             /\ "featureCodes" \in DOMAIN s
             /\ \A j \in 1..(Len(s.featureCodes) - 1) :
                  Before(s.featureCodes[j], s.featureCodes[j + 1])
             /\ Range(s.featureCodes) = LinkedCodes(run.canonical, s.subscriberId)

\* a subscriber is embedded with two feature codes that the order of the
\* bridge rows gives the other way round
SubscribersEmbedded ==
  /\ Succeeded
  /\ \E k \in DOMAIN run.mongoOptimized.subscribers :
       /\ Len(run.mongoOptimized.subscribers[k].featureCodes) = 2
       /\ featureCodesOf(run.canonical, run.mongoOptimized.subscribers[k].subscriberId)
            # run.mongoOptimized.subscribers[k].featureCodes

\* an embedded item with the orderId of its order
Flattened(item, orderId) ==
  [orderItemId |-> item.orderItemId, orderId |-> orderId, sku |-> item.sku, qty |-> item.qty,
   priceCents |-> item.priceCents]

\* C8: the items embedded in each optimized order are sorted by orderItemId
\* ascending and, flattened with the orderId of the order, are exactly the
\* canonical order_items rows of that order; every canonical order item is
\* in the list of exactly one order.
OptimizedOrders ==
  Succeeded =>
    /\ \A k \in DOMAIN run.mongoOptimized.orders :
         LET o == run.mongoOptimized.orders[k]
         IN  /\ \A j \in 1..(Len(o.items) - 1) :
                  o.items[j].orderItemId < o.items[j + 1].orderItemId
             /\ \A j \in DOMAIN o.items : DOMAIN o.items[j] = Range(ItemKeys)
             /\ {Flattened(o.items[j], o.orderId) : j \in DOMAIN o.items}
                  = {r \in Range(run.canonical.order_items) : r.orderId = o.orderId}
             /\ Len(o.items) = Occurrences(run.canonical.order_items, "orderId", o.orderId)
    /\ \A r \in Range(run.canonical.order_items) :
         Cardinality({k \in DOMAIN run.mongoOptimized.orders :
                        r.orderItemId
                          \in Column(run.mongoOptimized.orders[k].items, "orderItemId")}) = 1

\* several orders are embedded, one with several items
OrdersEmbedded ==
  /\ Succeeded
  /\ Len(run.mongoOptimized.orders) > 1
  /\ \E k \in DOMAIN run.mongoOptimized.orders : Len(run.mongoOptimized.orders[k].items) > 2

\* the collections folded into their parents
Folded == {"order_items", "subscriber_profiles"}

\* C9: the optimized projection has no order_items and no subscriber_profiles
\* collection and has exactly the other 17 collections of the normalized
\* projection, each with as many documents as canonical; no run writes an
\* order_items or subscriber_profiles file into the mongo_optimized directory.
OptimizedCollections ==
  /\ Succeeded =>
       /\ DOMAIN run.mongoOptimized = DOMAIN run.mongoNormalized \ Folded
       /\ Cardinality(DOMAIN run.mongoOptimized) = 17
       /\ \A name \in DOMAIN run.mongoOptimized :
            Len(run.mongoOptimized[name]) = Len(run.canonical[name])
  /\ \A p \in DOMAIN dest.files :
       Len(p) = 3 /\ p[2] = T("mongo_optimized") => p[3][1] \notin Folded

\* a run wrote the 17 files of the mongo_optimized directory
OptimizedWritten ==
  /\ Succeeded
  /\ Cardinality({p \in Range(run.writes) : Len(p) = 3 /\ p[2] = T("mongo_optimized")}) = 17
  /\ FileOf("mongo_optimized", "orders") \in DOMAIN dest.files

\* the snake_case form of the name of each canonical field: the name in
\* lower case with an underscore before each letter that was a capital
SnakeCase ==
  [accountId |-> "account_id", accountNumber |-> "account_number", name |-> "name",
   billingRegionCode |-> "billing_region_code", status |-> "status",
   createdAt |-> "created_at", subscriberId |-> "subscriber_id", msisdn |-> "msisdn",
   firstName |-> "first_name", lastName |-> "last_name", email |-> "email", dob |-> "dob",
   piiLast4Ssn |-> "pii_last4_ssn", preferences |-> "preferences",
   updatedAt |-> "updated_at", deviceId |-> "device_id", imei |-> "imei", model |-> "model",
   deviceEventId |-> "device_event_id", eventType |-> "event_type", ts |-> "ts",
   payload |-> "payload", orderId |-> "order_id", orderItemId |-> "order_item_id",
   sku |-> "sku", qty |-> "qty", priceCents |-> "price_cents", featureId |-> "feature_id",
   code |-> "code", subscriberFeatureStateId |-> "subscriber_feature_state_id",
   effectiveFrom |-> "effective_from", effectiveTo |-> "effective_to",
   provisioningState |-> "provisioning_state", source |-> "source",
   description |-> "description", ticketId |-> "ticket_id", statusCode |-> "status_code",
   openedAt |-> "opened_at", closedAt |-> "closed_at", summary |-> "summary",
   noteId |-> "note_id", refType |-> "ref_type", refId |-> "ref_id", author |-> "author",
   body |-> "body", orgUnitId |-> "org_unit_id", parentOrgUnitId |-> "parent_org_unit_id",
   planId |-> "plan_id", regionId |-> "region_id", deviceClassId |-> "device_class_id",
   rateCents |-> "rate_cents", usageRecordId |-> "usage_record_id",
   usageType |-> "usage_type", units |-> "units", ratedCents |-> "rated_cents"]

\* what the column of a canonical field holds: the JSON text of preferences
\* and payload, the value of any other field
Held(name, f, val) ==
  IF f \in {"preferences", "payload"} THEN JsonObject(name, val, NestedKeys(f)) ELSE val

\* C10: toPostgresCsvBundles yields, for each of the 19 entities, one row per
\* canonical row in the same order, and headers with exactly one column per
\* canonical field, named by the snake_case form of the field's name and
\* holding the field's value (preferences and payload as their JSON text):
\* no field is dropped and no column lacks a field.
BundlesLossless ==
  Succeeded /\ ~IsNull(run.bundles) =>
    /\ Len(run.bundles) = 19
    /\ \A e \in DOMAIN entityOrder :
         LET name == entityOrder[e]
             b == run.bundles[e]
         IN  /\ Len(b.rows) = Len(run.canonical[name])
             /\ Len(b.headers) = Len(Fields[name])
             /\ \A c \in DOMAIN b.headers : b.headers[c] = SnakeCase[Fields[name][c]]
             /\ Cardinality(Range(b.headers)) = Len(b.headers)
             /\ \A k \in DOMAIN b.rows :
                  /\ DOMAIN run.canonical[name][k] = Range(Fields[name])
                  /\ DOMAIN b.rows[k] = Range(b.headers)
                  /\ \A f \in DOMAIN run.canonical[name][k] :
                       b.rows[k][SnakeCase[f]] = Held(name, f, run.canonical[name][k][f])

\* the bundles of a dataset with profiles and device events are built
BundlesBuilt ==
  /\ Succeeded
  /\ ~IsNull(run.bundles)
  /\ Len(run.bundles[3].rows) > 0
  /\ Len(run.bundles[5].rows) > 0

(***************************************************************************)
(* Properties of the helper functions, stated of call                      *)
(***************************************************************************)
\* csvEscape has returned for a string
EscapedText ==
  /\ call.fn = "csvEscape"
  /\ call.pc = "returned"
  /\ call.args[1] = "string"
  /\ ~IsNull(call.args[2])

\* a reader of CSV text after RFC 4180: P holds the records and the fields
\* read, the field being read, whether it is inside quotes, and the place
CsvReadChar(text, P, c) ==
  IF P.quoted
  THEN IF c # "\"" THEN [P EXCEPT !.field = Append(@, c), !.i = @ + 1]
       ELSE IF P.i < Len(text) /\ text[P.i + 1] = "\""
       THEN [P EXCEPT !.field = Append(@, "\""), !.i = @ + 2]
       ELSE [P EXCEPT !.quoted = FALSE, !.i = @ + 1]
  ELSE IF c = "\"" THEN [P EXCEPT !.quoted = TRUE, !.i = @ + 1]
  ELSE IF c = "," THEN [P EXCEPT !.fields = Append(@, P.field), !.field = <<>>, !.i = @ + 1]
  ELSE IF c \in {"\n", "\r"}
  THEN [P EXCEPT !.records = Append(@, Append(P.fields, P.field)), !.fields = <<>>,
                 !.field = <<>>,
                 !.i = IF c = "\r" /\ P.i < Len(text) /\ text[P.i + 1] = "\n"
                       THEN @ + 2 ELSE @ + 1]
  ELSE [P EXCEPT !.field = Append(@, c), !.i = @ + 1]

RECURSIVE CsvReadFrom(_, _)
CsvReadFrom(text, P) ==
  IF P.i > Len(text) THEN Append(P.records, Append(P.fields, P.field))
  ELSE CsvReadFrom(text, CsvReadChar(text, P, text[P.i]))

\* the records of a CSV text that does not end with a line break
CsvRead(text) ==
  CsvReadFrom(text, [records |-> <<>>, fields |-> <<>>, field |-> <<>>, quoted |-> FALSE,
                     i |-> 1])

\* C11: a string encoded with csvEscape and decoded with a standard CSV
\* reader is the original string, unchanged: one record of one field.
CsvRoundTrip == EscapedText => CsvRead(call.returned) = <<<<call.args[2]>>>>

\* s with each double quote doubled
RECURSIVE EachQuoteTwice(_)
EachQuoteTwice(s) ==
  IF s = <<>> THEN <<>>
  ELSE (IF Head(s) = "\"" THEN <<"\"", "\"">> ELSE <<Head(s)>>) \o EachQuoteTwice(Tail(s))

\* s with each line break (CRLF, CR or LF) as LF
RECURSIVE LineBreaksAsLf(_)
LineBreaksAsLf(s) ==
  IF s = <<>> THEN <<>>
  ELSE IF Head(s) = "\r" /\ Len(s) > 1 /\ s[2] = "\n" THEN <<"\n">> \o LineBreaksAsLf(Tail(Tail(s)))
  ELSE IF Head(s) = "\r" THEN <<"\n">> \o LineBreaksAsLf(Tail(s))
  ELSE <<Head(s)>> \o LineBreaksAsLf(Tail(s))

\* the value has a comma, a double quote or a line break
Special(s) == \E k \in DOMAIN s : s[k] \in {",", "\"", "\n", "\r"}

\* what csvEscape returns for a value of which inner is put between quotes
Quoted(type, val, inner) ==
  IF IsNull(val) THEN <<>>
  ELSE IF type = "number" THEN String(val)
  ELSE IF Special(val) THEN <<"\"">> \o EachQuoteTwice(inner) \o <<"\"">>
  ELSE val

Escaped == call.fn = "csvEscape" /\ call.pc = "returned"

ListedCents(plan, region, class) ==
  (IF plan = T("PLAN-UNL-5G") THEN 6500 ELSE 4500)
    + (IF region = T("TX-NORTH") THEN 0 ELSE 0 - 200)
    + (IF class = T("PHONE") THEN 0 ELSE 0 - 1000)

\* the rows of rates for one plan, region and device class
RateRows(d, p, r, dc) ==
  {k \in DOMAIN d.rates : /\ d.rates[k].planId = p.planId
                          /\ d.rates[k].regionId = r.regionId
                          /\ d.rates[k].deviceClassId = dc.deviceClassId}

\* the rate table of every seed and size
RateTable ==
  <<[planId |-> 10001, regionId |-> 11001, deviceClassId |-> 12001, rateCents |-> 6500],
    [planId |-> 10001, regionId |-> 11001, deviceClassId |-> 12002, rateCents |-> 5500],
    [planId |-> 10001, regionId |-> 11002, deviceClassId |-> 12001, rateCents |-> 6300],
    [planId |-> 10001, regionId |-> 11002, deviceClassId |-> 12002, rateCents |-> 5300],
    [planId |-> 10002, regionId |-> 11001, deviceClassId |-> 12001, rateCents |-> 4500],
    [planId |-> 10002, regionId |-> 11001, deviceClassId |-> 12002, rateCents |-> 3500],
    [planId |-> 10002, regionId |-> 11002, deviceClassId |-> 12001, rateCents |-> 4300],
    [planId |-> 10002, regionId |-> 11002, deviceClassId |-> 12002, rateCents |-> 3300]>>

\* C13: at every point of every generation, whatever the seed and the size,
\* rates holds exactly one row for every combination of a plan, a region and
\* a device class and no other row (8 rows), the rateCents of a row is the
\* base of its plan (6500 or 4500) plus the delta of its region (0 or -200)
\* plus the delta of its device class (0 or -1000), no rateCents is negative,
\* and the table is the same one for every seed and size.
RatesCrossProduct ==
  LET d == gen.d
  IN  /\ Len(d.rates) = 8
      /\ \A kp \in DOMAIN d.plans, kr \in DOMAIN d.regions, kd \in DOMAIN d.device_classes :
            LET rows == RateRows(d, d.plans[kp], d.regions[kr], d.device_classes[kd])
            IN  /\ Cardinality(rows) = 1
                /\ \A k \in rows :
                      d.rates[k].rateCents = ListedCents(d.plans[kp].code, d.regions[kr].code,
                                                         d.device_classes[kd].code)
      /\ \A k \in DOMAIN d.rates :
            /\ d.rates[k].planId \in Column(d.plans, "planId")
            /\ d.rates[k].regionId \in Column(d.regions, "regionId")
            /\ d.rates[k].deviceClassId \in Column(d.device_classes, "deviceClassId")
            /\ d.rates[k].rateCents >= 0
      /\ d.rates = RateTable

\* a generation of a size other than S is under way, its rate table built
RatesBuilt ==
  /\ steps > 0
  /\ gen.cfg # presets(T("S"))
  /\ Cardinality({gen.d.rates[k].rateCents : k \in DOMAIN gen.d.rates}) = 8

(***************************************************************************)
(* The counts of the generated rows                                        *)
(***************************************************************************)
\* the number of rows whose field key holds id
ChildCount(rows, key, id) == Cardinality({k \in DOMAIN rows : rows[k][key] = id})

\* the number of parents whose pass of the loop pc is over, of all of them
PassesOver(pc, all) ==
  IF gen.pc = pc THEN gen.i
  ELSE IF PhaseIndex(gen.pc) > PhaseIndex(pc) THEN all
  ELSE 0

\* every one of the first n parents has between lo and hi rows in children
ChildrenWithin(parents, n, id, children, lo, hi) ==
  \A k \in 1..n :
     LET c == ChildCount(children, id, parents[k][id])
     IN  lo <= c /\ c <= hi

\* C14: for every size and seed, once the loop over the accounts is over
\* there are as many accounts as the preset says; every account whose pass is
\* over has a number of subscribers and a number of orders within the
\* preset's closed range, every order a number of items, every subscriber a
\* number of tickets and every device a number of events within theirs, and
\* every subscriber exactly usageRecordsPerSubscriber usage records; for
\* size S the returned data has 3 accounts with 2 subscribers each, and the
\* counts of its manifest give accounts as 3 and subscribers as 6.
CountsWithinPreset ==
  LET d   == gen.d
      cfg == gen.cfg
  IN  /\ Len(d.accounts) = PassesOver("accounts", cfg.accounts)
      /\ ChildrenWithin(d.accounts, PassesOver("subscribers", Len(d.accounts)), "accountId",
                        d.subscribers, cfg.subsPerAccountMin, cfg.subsPerAccountMax)
      /\ ChildrenWithin(d.accounts, PassesOver("orders", Len(d.accounts)), "accountId",
                        d.orders, cfg.ordersPerAccountMin, cfg.ordersPerAccountMax)
      /\ ChildrenWithin(d.orders, Len(d.orders), "orderId",
                        d.order_items, cfg.itemsPerOrderMin, cfg.itemsPerOrderMax)
      /\ ChildrenWithin(d.subscribers, PassesOver("tickets", Len(d.subscribers)), "subscriberId",
                        d.tickets, cfg.ticketsPerSubscriberMin, cfg.ticketsPerSubscriberMax)
      /\ ChildrenWithin(d.devices, PassesOver("device_events", Len(d.devices)), "deviceId",
                        d.device_events, cfg.deviceEventsPerDeviceMin,
                        cfg.deviceEventsPerDeviceMax)
      /\ ChildrenWithin(d.subscribers, PassesOver("usage_records", Len(d.subscribers)),
                        "subscriberId", d.usage_records, cfg.usageRecordsPerSubscriber,
                        cfg.usageRecordsPerSubscriber)
      /\ (gen.pc = "done" /\ cfg = presets(T("S"))) =>
            /\ Len(d.accounts) = 3
            /\ \A k \in DOMAIN d.accounts :
                  ChildCount(d.subscribers, "accountId", d.accounts[k].accountId) = 2
            /\ countsOf(d).accounts = 3
            /\ countsOf(d).subscribers = 6

\* a generation of size S has returned, an account of it with one order and
\* another with two, a subscriber without a ticket and another with one
CountsReturned ==
  /\ gen.pc = "done"
  /\ gen.cfg = presets(T("S"))
  /\ {ChildCount(gen.d.orders, "accountId", gen.d.accounts[k].accountId) :
        k \in DOMAIN gen.d.accounts} = {1, 2}
  /\ {ChildCount(gen.d.tickets, "subscriberId", gen.d.subscribers[k].subscriberId) :
        k \in DOMAIN gen.d.subscribers} = {0, 1}
  /\ Len(gen.d.usage_records) = 60

(***************************************************************************)
(* One profile and one device per subscriber                               *)
(***************************************************************************)
\* the values of a field, row by row
Listed(rows, key) == [k \in DOMAIN rows |-> rows[k][key]]

\* C15: at every point of every generation the subscriberId values of
\* subscriber_profiles are a list without duplicates equal to the list of the
\* subscriber ids, and so are those of devices for the subscribers whose pass
\* of the loop over the devices is over, which in the returned data is all of
\* them: a subscriber has exactly one profile and exactly one device.
OnePerSubscriber ==
  LET d    == gen.d
      ids  == Listed(d.subscribers, "subscriberId")
      over == PassesOver("devices", Len(d.subscribers))
  IN  /\ Unique(d.subscribers, "subscriberId")
      /\ Listed(d.subscriber_profiles, "subscriberId") = ids
      /\ Listed(d.devices, "subscriberId") = SubSeq(ids, 1, over)
      /\ Unique(d.subscriber_profiles, "subscriberId")
      /\ Unique(d.devices, "subscriberId")

\* a generation has returned the profiles and the devices of six subscribers
OnePerSubscriberReturned ==
  /\ gen.pc = "done"
  /\ Len(gen.d.subscribers) = 6
  /\ Len(gen.d.subscriber_profiles) = 6
  /\ Len(gen.d.devices) = 6

(***************************************************************************)
(* The payloads of the device events                                       *)
(***************************************************************************)
\* the keys of the payload of every event type
KeysOfType ==
  [radio_attach |-> {"cellId", "rssi"},
   handover |-> {"fromCellId", "toCellId"},
   data_session_start |-> {"apn", "ip"},
   data_session_end |-> {"bytesUp", "bytesDown"},
   latency_probe |-> {"p50Ms", "p95Ms"},
   attach_fail |-> {"cause"}]

\* C16: at every point of every generation every device event has one of the
\* six event types, and a payload whose keys are exactly the keys of its
\* type and so not empty; the keys of two different types are disjoint.
PayloadsByType ==
  /\ Cardinality(Range(eventTypes)) = 6
  /\ {eventTypes[k][1] : k \in DOMAIN eventTypes} = DOMAIN KeysOfType
  /\ \A a, b \in DOMAIN KeysOfType : a # b => KeysOfType[a] \cap KeysOfType[b] = {}
  /\ \A k \in DOMAIN gen.d.device_events :
        LET e == gen.d.device_events[k]
        IN  /\ e.eventType \in Range(eventTypes)
            /\ DOMAIN e.payload = KeysOfType[e.eventType[1]]
            /\ DOMAIN e.payload # {}

\* a generation has returned device events of all six types
PayloadsReturned ==
  /\ gen.pc = "done"
  /\ Column(gen.d.device_events, "eventType") = Range(eventTypes)

(***************************************************************************)
(* The targets of the notes                                                *)
(***************************************************************************)
\* the ids the notes of a type refer to, note by note
NoteTargets(d, refType) ==
  Listed(SelectSeq(d.notes, LAMBDA n : n.refType = refType), "refId")

\* the notes of a type refer to the lesser of most and the number of rows,
\* each of them a different row
NotesOn(d, refType, rows, id, most) ==
  LET targets == NoteTargets(d, refType)
  IN  /\ Len(targets) = Min(most, Len(rows))
      /\ Cardinality(Range(targets)) = Len(targets)
      /\ Range(targets) \subseteq Column(rows, id)

\* C17: no note is there before the notes are written; from then on every
\* note has the refType subscriber, order or ticket and as refId the id of a
\* row of that type, and the notes refer to min(4, #subscribers) different
\* subscribers, min(3, #orders) different orders and min(4, #tickets)
\* different tickets, one note each: none of a type without rows.
NotesReferToRows ==
  LET d == gen.d
  IN  IF PhaseIndex(gen.pc) <= PhaseIndex("notes") THEN d.notes = <<>>
      ELSE /\ Column(d.notes, "refType") \subseteq {T("subscriber"), T("order"), T("ticket")}
           /\ NotesOn(d, T("subscriber"), d.subscribers, "subscriberId", 4)
           /\ NotesOn(d, T("order"), d.orders, "orderId", 3)
           /\ NotesOn(d, T("ticket"), d.tickets, "ticketId", 4)

\* a generation without a ticket has returned, its notes on four subscribers
\* and three orders
NotesWithoutTickets ==
  /\ gen.pc = "done"
  /\ gen.d.tickets = <<>>
  /\ Len(NoteTargets(gen.d, T("subscriber"))) = 4
  /\ Len(NoteTargets(gen.d, T("order"))) = 3
  /\ Len(gen.d.notes) = 7

\* C18: presets returns a configuration for the sizes S, M and L only: an
\* application of it to any other size does not return, it throws.
PresetsOnlyKnown ==
  (call.fn = "presets" /\ call.pc # "called") =>
     IF call.args[1] \in {T("S"), T("M"), T("L")}
     THEN call.pc = "returned" /\ call.returned = presets(call.args[1])
     ELSE call.pc = "threw"

\* presets has been applied to a size other than S, M and L
PresetsOfUnknown ==
  /\ call.fn = "presets"
  /\ call.pc # "called"
  /\ call.args[1] = T("XL")

(***************************************************************************)
(* Properties of the runs that are refused, stated of run and dest         *)
(***************************************************************************)
\* the command line gives the option flag, and the value it gives with it
HasFlag(argv, flag) == \E k \in 3..Len(argv) : argv[k] = flag

\* argv[i] in the source is the (i + 1)-th element of argv here
ValueOf(argv, flag) == At(argv, CHOOSE i \in 3..Len(argv) : At(argv, i - 1) = flag)

\* a text that is not the decimal digits of a number
NonNumeric(text) ==
  \/ IsNull(text)
  \/ text = <<>>
  \/ \E k \in DOMAIN text : text[k] \notin Range(DigitChars)

\* a command line with a size other than S, M and L, a seed that is not a
\* number, or a shape selector other than the five
InvalidConfiguration(argv) ==
  \/ HasFlag(argv, T("--size")) /\ ValueOf(argv, T("--size")) \notin {T("S"), T("M"), T("L")}
  \/ HasFlag(argv, T("--seed")) /\ NonNumeric(ValueOf(argv, T("--seed")))
  \/ HasFlag(argv, T("--only")) /\ ValueOf(argv, T("--only")) \notin {T(only) : only \in Onlys}

\* C19: a run whose command line gives an unknown size, a seed that is not a
\* number or an unknown shape selector exits with a status other than 0 and
\* an error message, without having generated anything and without having
\* created or written any directory or file.
InvalidConfigurationFails ==
  [][(run'.pc = "exited" /\ runs' = runs + 1 /\ InvalidConfiguration(run'.argv))
     => /\ run'.exit # 0
        /\ run'.stderr # <<>>
        /\ IsNull(run'.canonical)
        /\ run'.writes = <<>>
        /\ dest' = dest]_vars

\* the shapes a shape selector selects
ShapesOf(only) == IF only = T("all") THEN {T(shape) : shape \in Onlys \ {"all"}} ELSE {only}

\* the files of a disk in the directory of a shape
ArtifactsOf(args, files, shape) ==
  {p \in DOMAIN files : Len(p) > Len(args.out) + 1
                        /\ SubSeq(p, 1, Len(args.out) + 1) = pathJoin(args.out, shape)}

\* a run whose arguments were accepted, without --overwrite
RanKeeping(r) == r.pc = "exited" /\ ~r.args.help /\ IsNull(r.args.threw) /\ ~r.args.overwrite

\* C20: a run without --overwrite against a destination that holds a file
\* of a shape it selects exits with a status other than 0 and an error
\* message, writes no file of that shape, and leaves every file that was
\* there as it was.
ConflictRefused ==
  [][(RanKeeping(run') /\ runs' = runs + 1)
     => \A shape \in ShapesOf(run'.args.only) :
           ArtifactsOf(run'.args, dest.files, shape) # {}
             => /\ run'.exit # 0
                /\ run'.stderr # <<>>
                /\ Range(run'.writes) \cap ArtifactsOf(run'.args, dest'.files, shape) = {}
                /\ \A p \in DOMAIN dest.files :
                      p \in DOMAIN dest'.files /\ dest'.files[p] = dest.files[p]]_vars

(***************************************************************************)
(* Properties of the destination after a sequence of runs                  *)
(***************************************************************************)
\* the text the data of the run r give the file p of the destination: a
\* collection of one of the three NDJSON shapes, or a table of postgres/data
TextOf(r, p) ==
  IF p[2] = T("postgres")
  THEN LET bundles == toPostgresCsvBundles(r.canonical)
           b == bundles[CHOOSE k \in DOMAIN bundles : T(bundles[k].filename) = p[4]]
       IN  Cached("toCsv", <<b.headers, b.rows>>, toCsv(b.headers, b.rows))
  ELSE LET rows == RowsOf(Data(r, p[2][1]), p[3][1])
       IN  Cached("NdjsonText", <<p[2][1], p[3][1], rows>>, NdjsonText(p[2][1], p[3][1], rows))

\* C21: whenever the latest run succeeded, every file of the destination
\* other than the manifest holds the text that the data of that run, the
\* data of the seed and size its manifest records, give it: no file of
\* another generation is left beside them.
NoMixedArtifacts ==
  Succeeded =>
    /\ run.manifest.seed = run.args.seed
    /\ run.manifest.size = run.args.size
    /\ \A p \in DOMAIN dest.files \ {ManifestPath(run.args)} : dest.files[p] = TextOf(run, p)

(***************************************************************************)
(* Properties of the order of the writes of a run, stated of run           *)
(***************************************************************************)
\* the files a run writes for a shape it selects
FilesOf(r, shape) ==
  IF shape = T("postgres")
  THEN {<<T("seed"), T("postgres"), T("data"), T(r.bundles[k].filename)>> : k \in DOMAIN r.bundles}
  ELSE {FileOf(shape[1], name) : name \in Range(entityOrder) \cap DOMAIN Data(r, shape[1])}

\* the places of the manifest among the writes of a run
ManifestWrites(r) == {j \in DOMAIN r.writes : r.writes[j] = ManifestPath(r.args)}

\* C22: a run that reports success has exit status 0 and wrote the
\* manifest once, as its last write, after every file of every shape it
\* selects; a run in which a step threw (parseArgs, the manifest guard or a
\* write) exits with a status other than 0, reports no success on its
\* standard output and has not written the manifest.
ManifestLast ==
  run.pc = "exited" =>
    /\ (~run.args.help /\ run.stdout # <<>>) => run.exit = 0
    /\ Succeeded =>
         /\ run.stdout = okLine(run.args, run.manifest)
         /\ ManifestWrites(run) = {Len(run.writes)}
         /\ \A shape \in ShapesOf(run.args.only) :
               /\ FilesOf(run, shape) # {}
               /\ FilesOf(run, shape) \subseteq Range(SubSeq(run.writes, 1, Len(run.writes) - 1))
    /\ run.exit # 0 =>
         /\ run.stdout = <<>>
         /\ run.stderr # <<>>
         /\ ManifestWrites(run) = {}
         /\ IsNull(run.manifest)

\* a run has failed at the write of its manifest, the nineteen files of the
\* one shape it selects written
ManifestWriteFailed ==
  /\ run.pc = "exited"
  /\ run.exit = 1
  /\ run.args.only = T("canonical")
  /\ Range(run.writes) = {FileOf("canonical", name) : name \in Range(entityOrder)}

(***************************************************************************)
(* Properties of the manifest, stated of run and dest                      *)
(***************************************************************************)
\* C23: the manifest of a run that succeeded, whichever shapes it selected,
\* records the seed and the size of the run and the preset of that size;
\* its counts have one entry for each of the 19 entities, the number of rows
\* of that entity in the canonical data; it is the manifest the file holds;
\* and the data of the run are still what generateCanonical and the
\* projections return for the seed and the preset.
ManifestRecordsRun ==
  Succeeded =>
    /\ run.manifest.seed = run.args.seed
    /\ run.manifest.size = run.args.size
    /\ run.manifest.presets = presets(run.args.size)
    /\ DOMAIN run.manifest.counts = Range(entityOrder)
    /\ Cardinality(DOMAIN run.manifest.counts) = 19
    /\ \A name \in Range(entityOrder) : run.manifest.counts[name] = Len(run.canonical[name])
    /\ dest.files[ManifestPath(run.args)] = ManifestText(run.manifest)
    /\ run.canonical = Cached("generateCanonical",
                              <<mulberry32(run.args.seed.v), presets(run.args.size)>>,
                              generateCanonical(mulberry32(run.args.seed.v),
                                                presets(run.args.size)))
    /\ run.mongoNormalized = toMongoNormalized(run.canonical)
    /\ run.mongoOptimized
         = toMongoOptimized(run.canonical, run.mongoNormalized, presets(run.args.size))

\* a run for the postgres shape alone and the seed 7 has succeeded
ManifestOfOneShape ==
  /\ Succeeded
  /\ run.args.only = T("postgres")
  /\ run.manifest.seed = Num(7)
  /\ run.manifest.counts.usage_records = 60


(***************************************************************************)
(* C24: load.sql loads a table only after every other table its foreign    *)
(* keys reference (a reference of a table to itself is met by the rows of  *)
(* its own COPY), so that no COPY of a generated dataset fails on a        *)
(* foreign key: a session stops only at a COPY whose file is missing.  A   *)
(* session that commits has loaded each of the 19 CSV files the generator  *)
(* writes exactly once.                                                    *)
(***************************************************************************)
GeneratedFiles ==
  {b.filename : b \in Range(toPostgresCsvBundles(generateCanonical(mulberry32(42),
                                                                   presets(T("S")))))}

LoadedFile(i) == CsvVariables[CopyStatements[i].from]

LoadedAfterReferenced(loaded) ==
  \A i \in DOMAIN loaded :
     /\ loaded[i] = CopyStatements[i].table
     /\ \A ref \in References[loaded[i]] :
           \/ ref.table = loaded[i]
           \/ \E j \in 1..(i - 1) : loaded[j] = ref.table

LoadInDependencyOrder ==
  load.status # "none" =>
    /\ LoadedAfterReferenced(load.loaded)
    /\ load.status = "failed" =>
         /\ load.pc \in DOMAIN CopyStatements
         /\ LoadedFile(load.pc) \notin DOMAIN load.dir
    /\ load.status = "committed" =>
         /\ Cardinality(GeneratedFiles) = 19
         /\ {LoadedFile(i) : i \in DOMAIN load.loaded} = GeneratedFiles
         /\ \A f \in GeneratedFiles :
               Cardinality({i \in DOMAIN load.loaded : LoadedFile(i) = f}) = 1

\* a session committed with all 19 tables loaded, tickets and child
\* organisation units among their rows
LoadCommitted ==
  /\ load.status = "committed"
  /\ Len(load.loaded) = 19
  /\ Len(load.tables["tickets"]) > 0
  /\ \E k \in DOMAIN load.tables["org_units"] :
        ~IsNull(load.tables["org_units"][k]["parent_org_unit_id"])


(***************************************************************************)
(* C25: toMongoOptimized is a pure function.  After a run that succeeded,  *)
(* applying it again to the canonical dataset, the normalized projection   *)
(* and the preset of the run gives the optimized projection of the run;    *)
(* the canonical dataset is still what generateCanonical returned and the  *)
(* normalized projection still what toMongoNormalized returned, with its   *)
(* order_items and subscriber_profiles collections and without a profile,  *)
(* featureCodes or items field in its subscribers and orders.              *)
(***************************************************************************)
Projections(r) ==
  /\ r.pc = "exited"
  /\ ~IsNull(r.mongoOptimized)

RECURSIVE Alone(_, _)
Alone(g, i) == IF i = 1 THEN rand(g) ELSE rand(Alone(g, i - 1).g)

\* (seed >>> 0) + i * 0x6D2B79F5 modulo 2^32
Advanced(seed, i) ==
  LET low == ToUint32(seed)[2] + i * Increment[2]
  IN  <<(ToUint32(seed)[1] + i * Increment[1] + low \div W16) % W16, low % W16>>

IsUint32(u) == u[1] \in 0..(W16 - 1) /\ u[2] \in 0..(W16 - 1)

Times(a, x) == Cardinality({i \in DOMAIN a : a[i] = x})

IsPermutationOf(a, b) ==
  /\ Len(a) = Len(b)
  /\ \A x \in Range(a) \cup Range(b) : Times(a, x) = Times(b, x)

\* the swaps from index i (0-based) down to index 1, one draw for each
RECURSIVE FisherYates(_, _, _)
FisherYates(g, a, i) ==
  IF i < 1 THEN [g |-> g, v |-> a]
  ELSE FisherYates(rand(g).g, Swap(a, i + 1, FloorMul(rand(g).v, i + 1) + 1), i - 1)

Rearranged(arr) ==
  {[i \in DOMAIN arr |-> arr[f[i]]] : f \in {h \in [DOMAIN arr -> DOMAIN arr] :
                                              \A i, j \in DOMAIN arr : h[i] = h[j] => i = j}}

ShuffleResults ==
  [arr \in ShuffleArrays |-> {shuffle(mulberry32(seed), arr).v : seed \in 0..MaxSeed}]

ShuffleReturned(before, after) ==
  /\ after.args = before.args
  /\ IsPermutationOf(after.returned.v, before.args[2])
  /\ after.returned.g.n = before.args[1].n
                            + (IF Len(before.args[2]) > 1 THEN Len(before.args[2]) - 1 ELSE 0)
  /\ after.returned = FisherYates(before.args[1], before.args[2], Len(before.args[2]) - 1)
  /\ Rearranged(before.args[2]) = ShuffleResults[before.args[2]]

ShufflePermutes ==
  [][(call.fn = "shuffle" /\ call.pc = "called") => ShuffleReturned(call, call')]_vars

\* four items returned in an order other than theirs
ShuffledFour ==
  /\ call.fn = "shuffle"
  /\ call.pc = "returned"
  /\ Len(call.args[2]) = 4
  /\ call.returned.v # call.args[2]
  /\ call.returned.v[4] = call.args[2][4]


(***************************************************************************)
(* C28: for one seed, two applications of generateCanonical to presets     *)
(* that agree on accounts, days and the range of subscribers per account   *)
(* return the same accounts, subscribers, subscriber profiles and devices, *)
(* whatever their counts of orders, items, tickets, device events and      *)
(* usage records.                                                          *)
(***************************************************************************)
AgreeOnSubscribers(a, b) ==
  /\ a.accounts = b.accounts
  /\ a.days = b.days
  /\ a.subsPerAccountMin = b.subsPerAccountMin
  /\ a.subsPerAccountMax = b.subsPerAccountMax

SameSubscribers(c, d) ==
  /\ c.accounts = d.accounts
  /\ c.subscribers = d.subscribers
  /\ c.subscriber_profiles = d.subscriber_profiles
  /\ c.devices = d.devices

SubscribersIgnoreLaterCounts ==
  (call.fn = "generateCanonical" /\ call.pc = "returned") =>
    \A cfg \in CfgVariants :
       AgreeOnSubscribers(cfg, call.args[2]) =>
         SameSubscribers(generateCanonical(call.args[1], cfg), call.returned)

\* a dataset returned for counts other than those of S, with more orders
\* than S can have
MoreOrdersReturned ==
  /\ call.fn = "generateCanonical"
  /\ call.pc = "returned"
  /\ call.args[2].ordersPerAccountMin = 2
  /\ Len(call.returned.orders) > 6
  /\ Len(call.returned.devices) = 6


(***************************************************************************)
(* C29: every timestamp of every generated row (createdAt, updatedAt,      *)
(* effectiveFrom, effectiveTo, openedAt, closedAt, ts) lies in the closed  *)
(* window from 2026-01-18T00:00:00Z minus (days + 5) days to               *)
(* 2026-01-18T00:00:00Z, for every size and seed.  Stated of the rows each *)
(* pass of the generator's loops adds.                                     *)
(***************************************************************************)
TimeKeys == {"createdAt", "updatedAt", "effectiveFrom", "effectiveTo", "openedAt", "closedAt",
             "ts"}

InWindow(cfg, row) ==
  \A key \in TimeKeys \cap DOMAIN row :
     \/ IsNull(row[key])
     \/ /\ DateParse(row[key]) >= base - (cfg.days + 5) * DaySeconds
        /\ DateParse(row[key]) <= base

AddedInWindow(before, after) ==
  \A name \in DOMAIN after.d :
     \A k \in (Len(before.d[name]) + 1)..Len(after.d[name]) : InWindow(after.cfg, after.d[name][k])

TimestampsInWindow == [][AddedInWindow(gen, gen')]_vars


(***************************************************************************)
(* C30: every ticket has a closedAt exactly when its statusCode is         *)
(* RESOLVED, and its closedAt is then 15 to 180 minutes after its          *)
(* openedAt; every subscriber_feature_state row has no effectiveTo or one  *)
(* exactly 3 days after its effectiveFrom.  Stated of the rows each pass   *)
(* of the generator's loops adds.                                          *)
(***************************************************************************)
TicketClosed(t) ==
  /\ ~IsNull(t.closedAt) <=> t.statusCode = T("RESOLVED")
  /\ ~IsNull(t.closedAt) =>
       /\ DateParse(t.closedAt) - DateParse(t.openedAt) >= 15 * 60
       /\ DateParse(t.closedAt) - DateParse(t.openedAt) <= 180 * 60

StateEnded(r) ==
  \/ IsNull(r.effectiveTo)
  \/ DateParse(r.effectiveTo) = DateParse(r.effectiveFrom) + 3 * DaySeconds

AddedRows(before, after, name) ==
  {after.d[name][k] : k \in (Len(before.d[name]) + 1)..Len(after.d[name])}

ClosedWhenResolved ==
  [][/\ \A t \in AddedRows(gen, gen', "tickets") : TicketClosed(t)
     /\ \A r \in AddedRows(gen, gen', "subscriber_feature_state") : StateEnded(r)]_vars

\* the tickets are generated, a resolved one and an open one among them,
\* and a feature state that ended
ResolvedAndOpen ==
  /\ gen.pc = "notes"
  /\ \E t \in Range(gen.d.tickets) : ~IsNull(t.closedAt)
  /\ \E t \in Range(gen.d.tickets) : IsNull(t.closedAt)
  /\ \E r \in Range(gen.d.subscriber_feature_state) : ~IsNull(r.effectiveTo)

====
